---- MODULE Spec2Model ----
(***************************************************************************)
(* A model of the Starknet contract dashboard's interaction-discovery      *)
(* engine (src/src/App.tsx, lines 74-803: the starknetClient module):      *)
(*   - fetchInteractions: one discovery run (boundary search, event scan,  *)
(*     trace fallback, final assembly)              specification Spec     *)
(*   - RpcRateLimiter: the process-wide token bucket                       *)
(*                                 specifications LimiterSpec, LimiterFair *)
(***************************************************************************)
EXTENDS Integers, Sequences, FiniteSets, TLC

(***************************************************************************)
(* Optional values (undefined / null) are sets with at most one element.   *)
(***************************************************************************)
None == {}
Some(x) == {x}
Get(s) == CHOOSE x \in s : TRUE

(***************************************************************************)
(* Bounds of the model.                                                    *)
(***************************************************************************)
MaxPage == 2
MaxPageSize == 2
MaxBudget == 8
MaxFailures == 1
MaxHeight == 2
MaxCalls == 3
MaxRate == 3
MaxConcurrency == 2
MaxTries == 6

(***************************************************************************)
(* Strings.  An address keeps its case; toLowerCase folds it.              *)
(***************************************************************************)
toLowerCase(s) ==
  CASE s = "0xCAFE" -> "0xcafe"
    [] s = "0xBEEF" -> "0xbeef"
    [] s = "0xFF" -> "0xff"
    [] OTHER -> s

\* shortString.decodeShortString of the starknet library on the selectors
\* the node fixture uses: a hex string decodes to the ASCII text of its bytes.
HexSelectors == {"0x70696e67", "0x706f6e67", "0x6d696e74"}
startsWith0x(s) == s \in HexSelectors

decodeSelector(value) ==
  IF value = None \/ value = Some("") THEN None
  ELSE IF ~startsWith0x(Get(value)) THEN value
  ELSE Some(CASE Get(value) = "0x70696e67" -> "ping"
              [] Get(value) = "0x706f6e67" -> "pong"
              [] Get(value) = "0x6d696e74" -> "mint"
              [] OTHER -> Get(value))

toUpperCase(s) ==
  CASE s = "invoke" -> "INVOKE"
    [] s = "declare" -> "DECLARE"
    [] s = "deploy_account" -> "DEPLOY_ACCOUNT"
    [] OTHER -> s

toTxType(value) ==
  LET normalized == toUpperCase(IF value = None \/ value = Some("") THEN "INVOKE"
                                ELSE Get(value))
  IN  IF normalized = "DECLARE" THEN "DECLARE"
      ELSE IF normalized = "DEPLOY" \/ normalized = "DEPLOY_ACCOUNT" THEN "DEPLOY"
      ELSE IF normalized = "L1_HANDLER" THEN "L1_HANDLER"
      ELSE "INVOKE"

(***************************************************************************)
(* toFee: Number(BigInt(amount)), 0 when absent or unparsable.  An amount  *)
(* is a sequence of characters.                                            *)
(***************************************************************************)
HexChars == <<"0","1","2","3","4","5","6","7","8","9","a","b","c","d","e","f">>
DigitVal(c) == (CHOOSE i \in 1..16 : HexChars[i] = c) - 1
IsDigit(c, base) == \E i \in 1..base : HexChars[i] = c

RECURSIVE DigitsValue(_, _)
DigitsValue(s, base) ==
  IF s = <<>> THEN 0
  ELSE DigitsValue(SubSeq(s, 1, Len(s) - 1), base) * base + DigitVal(s[Len(s)])

\* BigInt(string): a 0x-prefixed hexadecimal or a decimal literal; anything
\* else throws (the empty option here).
BigIntOf(s) ==
  IF Len(s) >= 2 /\ s[1] = "0" /\ s[2] = "x"
  THEN LET d == SubSeq(s, 3, Len(s))
       IN  IF d # <<>> /\ \A i \in 1..Len(d) : IsDigit(d[i], 16)
           THEN Some(DigitsValue(d, 16)) ELSE None
  ELSE IF \A i \in 1..Len(s) : IsDigit(s[i], 10)
       THEN Some(DigitsValue(s, 10)) ELSE None

toFee(amount) ==
  IF amount = None \/ amount = Some(<<>>) THEN 0
  ELSE IF BigIntOf(Get(amount)) = None THEN 0
  ELSE Get(BigIntOf(Get(amount)))

(***************************************************************************)
(* The node.  Blocks 0..MaxHeight; block h carries timestamp               *)
(* 1000 * (h + 1) (the timestamps of the repository's tests).  The         *)
(* transactions, receipts, transaction objects and traces are one fixture; *)
(* the event log is chosen in Init.                                        *)
(***************************************************************************)
Address == "0xCAFE"
Network == "mainnet"
Heights == 0..MaxHeight
VARIABLE blockTimestamps   \* the timestamp of every block of the chain
BlockTimestamp(h) == blockTimestamps[h]
\* The chain of the repository's tests, and the chains with timestamps that
\* do not decrease with the height.
TestChain == [h \in Heights |-> 1000 * (h + 1)]
ChainTimestamps == {1000, 2000, 3000}
NonDecreasingChains ==
  { c \in [Heights -> ChainTimestamps] : \A h \in 1..MaxHeight : c[h - 1] <= c[h] }

TxHashes == {"0x1", "0x2", "0x3", "0x4"}
TxBlock(hash) ==
  CASE hash = "0x3" -> MaxHeight
    [] hash = "0x1" -> 1
    [] hash = "0x2" -> 1
    [] OTHER -> 0

\* getBlockWithTxs(h).transactions; the last entry of block 1 carries no hash.
BlockTransactions(h) ==
  IF h = MaxHeight THEN << [transaction_hash |-> Some("0x3"), type |-> Some("L1_HANDLER")] >>
  ELSE IF h = 1 THEN << [transaction_hash |-> Some("0x1"), type |-> Some("INVOKE")],
                        [transaction_hash |-> Some("0x2"), type |-> Some("INVOKE")],
                        [transaction_hash |-> None, type |-> None] >>
  ELSE IF h = 0 THEN << [transaction_hash |-> Some("0x4"), type |-> Some("invoke")] >>
  ELSE << >>

\* getTransactionReceipt(hash)
Receipt(hash) ==
  CASE hash = "0x1" ->
         [block_number |-> Some(1), type |-> Some("INVOKE"),
          execution_status |-> Some("SUCCEEDED"), revert_reason |-> None,
          actual_fee |-> Some(<<"0","x","1","0">>), sender_address |-> Some("0xFF"),
          events |-> << [from_address |-> "0xBEEF", keys |-> <<"0x706f6e67">>],
                        [from_address |-> "0xcafe", keys |-> <<"0x6d696e74">>] >>]
    [] hash = "0x2" ->
         [block_number |-> Some(1), type |-> None,
          execution_status |-> Some("REVERTED"), revert_reason |-> None,
          actual_fee |-> None, sender_address |-> None,
          events |-> << [from_address |-> "0xCAFE", keys |-> <<"0x6d696e74">>] >>]
    [] hash = "0x3" ->
         [block_number |-> None, type |-> Some("L1_HANDLER"),
          execution_status |-> Some("SUCCEEDED"), revert_reason |-> Some("out of gas"),
          actual_fee |-> Some(<<"0","x","5">>), sender_address |-> None,
          events |-> << >>]
    [] OTHER ->
         [block_number |-> Some(0), type |-> Some("invoke"),
          execution_status |-> Some("SUCCEEDED"), revert_reason |-> None,
          actual_fee |-> Some(<<"0","x","z">>), sender_address |-> Some("0xFF"),
          events |-> << >>]

\* getTransactionByHash(hash)
Transaction(hash) ==
  CASE hash = "0x1" ->
         [entry_point_selector_name |-> None, entry_point_selector |-> Some("0x70696e67"),
          sender_address |-> Some("0xBEEF"), contract_address |-> None, type |-> Some("INVOKE")]
    [] hash = "0x2" ->
         [entry_point_selector_name |-> None, entry_point_selector |-> None,
          sender_address |-> Some("0xBEEF"), contract_address |-> None, type |-> Some("DECLARE")]
    [] OTHER ->
         [entry_point_selector_name |-> None, entry_point_selector |-> None,
          sender_address |-> None, contract_address |-> None, type |-> None]

\* An invocation node of a trace.
Invocation(addr, selector, caller, calls) ==
  [contract_address |-> addr, entry_point_selector |-> selector,
   caller_address |-> caller, calls |-> calls]
Reverted == [revert_reason |-> "reverted"]
NoInvoke == [validate_invocation |-> None, execute_invocation |-> None,
             fee_transfer_invocation |-> None]
NoTrace == [invoke_tx_trace |-> None, deploy_account_tx_trace |-> None,
            l1_handler_tx_trace |-> None, declare_tx_trace |-> None]

\* getTransactionTrace(hash).  "0x1" invokes the contract directly, "0x2" in a
\* nested call and under another spelling of the address (and again in a later
\* call of the root), "0x3" is an L1
\* handler on it; the execution of "0x4" reverted and only its fee transfer
\* reaches the contract.
Trace(hash) ==
  CASE hash = "0x1" ->
         [NoTrace EXCEPT !.invoke_tx_trace = Some([NoInvoke EXCEPT
            !.validate_invocation = Some(Invocation("0xFF", None, None, << >>)),
            !.execute_invocation =
               Some(Invocation("0xCAFE", Some("0x70696e67"), Some("0xBEEF"), << >>))])]
    [] hash = "0x2" ->
         [NoTrace EXCEPT !.invoke_tx_trace = Some([NoInvoke EXCEPT
            !.execute_invocation =
               Some(Invocation("0xFF", Some("0x706f6e67"), None,
                      << Invocation("0xBEEF", None, Some("0xFF"), << >>),
                         Invocation("0xBEEF", None, Some("0xFF"),
                           << Invocation("0xcafe", Some("mint"), Some("0xBEEF"), << >>) >>),
                         Invocation("0xCAFE", Some("burn"), Some("0xFF"), << >>) >>))])]
    [] hash = "0x3" ->
         [NoTrace EXCEPT !.l1_handler_tx_trace =
            Some([function_invocation |-> Some(Invocation("0xcafe", None, None, << >>))])]
    [] OTHER ->
         [NoTrace EXCEPT !.invoke_tx_trace = Some([NoInvoke EXCEPT
            !.execute_invocation = Some(Reverted),
            !.fee_transfer_invocation =
               Some(Invocation("0xCAFE", Some("transfer"), Some("0xFF"), << >>))])]

\* The address-filtered event log, as the pages the node serves: each event
\* names its transaction (the empty hash: an event without one).
EventLogs ==
  { << << >> >>,
    << << "0x1", "0x1", "0x3" >> >>,
    << << "0x1" >>, << "", "0x3", "0x1" >> >>,
    << << "0x2", "0x3" >>, << "0x1" >> >> }

\* getEvents(continuation_token, from_block, to_block): page `token` (the
\* first page without a token) restricted to the block range, and the token
\* of the next page if there is one.
EventBlock(hash) == IF hash = "" THEN 0 ELSE TxBlock(hash)
RECURSIVE SelectInRange(_, _, _)
SelectInRange(evs, lo, hi) ==
  IF evs = << >> THEN << >>
  ELSE LET rest == SelectInRange(Tail(evs), lo, hi)
       IN  IF EventBlock(Head(evs)) >= lo /\ EventBlock(Head(evs)) <= hi
           THEN << Head(evs) >> \o rest ELSE rest
EventsPage(log, token, lo, hi) ==
  LET i == IF token = None THEN 1 ELSE Get(token)
  IN  [events |-> SelectInRange(log[i], lo, hi),
       continuation_token |-> IF i < Len(log) THEN Some(i + 1) ELSE None]

(***************************************************************************)
(* The inputs of a run: page, page size, filters and time range.           *)
(***************************************************************************)
\* The placeholder a row without entrypoint is compared under (an em dash).
Placeholder == "(em dash)"
NoFilters == [type |-> None, method |-> None, status |-> None, minFee |-> None, maxFee |-> None]
FilterSets ==
  { NoFilters,
    [NoFilters EXCEPT !.type = Some("INVOKE")],
    [NoFilters EXCEPT !.type = Some("ALL")],
    [NoFilters EXCEPT !.method = Some("ping")],
    [NoFilters EXCEPT !.method = Some(Placeholder)],
    [NoFilters EXCEPT !.status = Some("ACCEPTED")],
    [NoFilters EXCEPT !.minFee = Some(5)],
    [NoFilters EXCEPT !.maxFee = Some(5)] }
TimeRanges ==
  { [from |-> Some(2000), to |-> None],
    [from |-> None, to |-> Some(2000)],
    [from |-> Some(1500), to |-> Some(3500)],
    [from |-> Some(4000), to |-> None],
    [from |-> None, to |-> Some(500)],
    [from |-> Some(2500), to |-> Some(2400)],
    [from |-> Some(2000), to |-> Some(2000)] }
Queries ==
  { [filters |-> f, from |-> None, to |-> None] : f \in FilterSets }
  \cup { [filters |-> NoFilters, from |-> r.from, to |-> r.to] : r \in TimeRanges }
Budgets == {1, 3, MaxBudget}

(***************************************************************************)
(* The state of one fetchInteractions run.                                 *)
(***************************************************************************)
VARIABLES
  p,                       \* FetchParams
  eventLog,                \* the node's event log for p.address
  maxTraceLookups,         \* MAX_TRACE_LOOKUPS
  previous,                \* the page and result of an earlier run of the same query
  pc,                      \* the await the run is suspended at
  calls,                   \* the node calls issued so far, in order
  failures,                \* node calls that failed so far
  thrown,                  \* what the last failed node call threw
  allRows, seenTx, blockTimestampCache,
  latestBlockNumber, latestTimestamp, earliestTimestamp,
  low, high, searchResult, \* findBoundaryBlock's locals
  lookups,                 \* getBlockTimestamp(mid) calls of the search in progress or last made
  fromBlock, toBlock,
  continuation, nextContinuationToken, events, eventIndex,
  matchingRowCount, reachedLimit,
  blockNumber, unseenTransactions, txIndex,
  txScanComplete, fallbackBudgetExhausted, remainingTraceLookups,
  result,                  \* the FetchResult returned, once pc = "done"
  warned                   \* console.warn was called

(***************************************************************************)
(* The state of the process-wide RpcRateLimiter, and of the calls handed   *)
(* to it.  Tokens are counted in units of 1 / TokenUnit token and time in  *)
(* ticks of 1 / TicksPerSecond second, so that refilling is exact.         *)
(***************************************************************************)
VARIABLES
  requestsPerSecond,       \* in token units per tick (after the constructor's clamp)
  maxConcurrency,
  tokens,                  \* in token units
  active,
  queue,                   \* the queued tasks, oldest first
  timer,                   \* the pending refill timer: the ticks left until it is due
  pendingTimers,           \* the setTimeout calls neither fired nor cleared
  sinceRefill,             \* ticks elapsed since lastRefill
  task,                    \* per call: "idle", "queued", "running"
  lastStarts,              \* the runTask calls of the last limiter step, in order
  settling,                \* the call whose promise settled and whose finalize is pending
  admitted                 \* how many times runTask ran (a token was consumed), up to MaxAdmitted

limiterVars == << requestsPerSecond, maxConcurrency, tokens, active, queue, timer, pendingTimers,
                  sinceRefill, task, lastStarts, settling, admitted >>

(***************************************************************************)
(* The state of one callRpcWithRetry call.  Times are in milliseconds,     *)
(* counted from startTime.                                                 *)
(***************************************************************************)
VARIABLES
  retryOptions,            \* RetryOptions: maxAttempts (None: unbounded), maxDurationMs
  attempt,
  elapsedMs,               \* Date.now() - startTime
  retryPc,                 \* "calling", "sleeping", "returned", "thrown"
  retryLog,                \* the entries passed to log, in order
  invocations,             \* how many times factory() was invoked
  throttlings,             \* how many invocations failed with a throttling error
  delayMs,                 \* the delay of the sleep in progress
  sleptMs,                 \* the time spent in sleep(delayMs) so far
  lastError,               \* the error of the last failed invocation
  thrownError,             \* the error callRpcWithRetry rejected with
  returnedValue,           \* the value callRpcWithRetry resolved with
  factoryValue,            \* the value the last successful invocation produced
  zeroTimeCycle            \* some attempt and the sleep after it took no time at all

retryVars == << retryOptions, attempt, elapsedMs, retryPc, retryLog, invocations,
                throttlings, delayMs, sleptMs, lastError, thrownError, returnedValue,
                factoryValue, zeroTimeCycle >>

inputVars == << p, eventLog, maxTraceLookups, blockTimestamps, previous >>
headVars == << latestBlockNumber, latestTimestamp, earliestTimestamp >>
searchVars == << low, high, searchResult, lookups >>
windowVars == << fromBlock, toBlock >>
rowVars == << allRows, seenTx, matchingRowCount, reachedLimit >>
eventVars == << continuation, nextContinuationToken, events, eventIndex >>
fallbackVars == << blockNumber, unseenTransactions, txIndex, txScanComplete,
                   fallbackBudgetExhausted, remainingTraceLookups >>
endVars == << result, warned >>
runVars == << inputVars, pc, calls, failures, thrown, blockTimestampCache, headVars, searchVars,
              windowVars, rowVars, eventVars, fallbackVars, endVars >>

Call(method, block, hash, token, ok) ==
  [method |-> method, block |-> block, hash |-> hash, token |-> token, ok |-> ok]
\* A node call may fail (a non-throttling error, or the retry budget running
\* out); failures are followed in the first run of a query only.
MayFail == failures < MaxFailures /\ previous = None
\* callWithLimiter rejects with what callRpcWithRetry throws: the throttling
\* error once its retry budget is spent, or any other error at once.
ErrorKinds == {"throttled", "other"}
throws ==
  thrown' \in (IF Len(calls') > Len(calls) /\ ~calls'[Len(calls')].ok
               THEN ErrorKinds ELSE {thrown})
limit == p.page * p.pageSize
addressLower == toLowerCase(p.address)
blockRangeStart == IF fromBlock = None THEN 0 ELSE Get(fromBlock)
\* A faulty upper end that starts the fallback at the latest block (C40).
blockRangeEndAtLatest == latestBlockNumber
blockRangeEnd == IF toBlock = None THEN latestBlockNumber ELSE Get(toBlock)

Params(pg, ps, q) ==
  [address |-> Address, network |-> Network, page |-> pg, pageSize |-> ps,
   filters |-> q.filters, from |-> q.from, to |-> q.to]

\* The locals of fetchInteractions as it starts.
RunStart ==
  /\ previous = None
  /\ pc = "latest"
  /\ calls = << >>
  /\ failures = 0
  /\ thrown = "none"
  /\ allRows = << >>
  /\ seenTx = {}
  /\ blockTimestampCache = << >>
  /\ latestBlockNumber = 0 /\ latestTimestamp = 0 /\ earliestTimestamp = 0
  /\ low = 0 /\ high = 0 /\ searchResult = 0 /\ lookups = 0
  /\ fromBlock = None /\ toBlock = None
  /\ continuation = None /\ nextContinuationToken = None
  /\ events = << >> /\ eventIndex = 1
  /\ matchingRowCount = 0 /\ reachedLimit = FALSE
  /\ blockNumber = 0 /\ unseenTransactions = << >> /\ txIndex = 1
  /\ txScanComplete = TRUE /\ fallbackBudgetExhausted = FALSE
  /\ remainingTraceLookups = 0
  /\ result = None
  /\ warned = FALSE

RunInit ==
  /\ p \in { Params(pg, ps, q) : pg \in 1..MaxPage, ps \in 1..MaxPageSize, q \in Queries }
  /\ eventLog \in EventLogs
  /\ maxTraceLookups \in Budgets
  /\ blockTimestamps = TestChain
  /\ RunStart

(***************************************************************************)
(* Pure helpers of fetchInteractions.                                      *)
(***************************************************************************)
\* A faulty matchesFilters that ignores the minimum fee (C2's formula must
\* tell it from the real one).
matchesFiltersWithoutMinFee(row) ==
  /\ ~(p.filters.type # None /\ p.filters.type # Some("ALL") /\ Some(row.type) # p.filters.type)
  /\ ~(p.filters.method # None /\ p.filters.method # Some("")
        /\ (IF row.entrypoint = None \/ row.entrypoint = Some("")
            THEN Some(Placeholder) ELSE row.entrypoint) # p.filters.method)
  /\ ~(p.filters.status # None /\ p.filters.status # Some("ALL")
        /\ Some(row.status) # p.filters.status)
  /\ ~(p.filters.maxFee # None /\ row.fee > Get(p.filters.maxFee))

matchesFilters(row) ==
  /\ ~(p.filters.type # None /\ p.filters.type # Some("ALL") /\ Some(row.type) # p.filters.type)
  /\ ~(p.filters.method # None /\ p.filters.method # Some("")
        /\ (IF row.entrypoint = None \/ row.entrypoint = Some("")
            THEN Some(Placeholder) ELSE row.entrypoint) # p.filters.method)
  /\ ~(p.filters.status # None /\ p.filters.status # Some("ALL")
        /\ Some(row.status) # p.filters.status)
  /\ ~(p.filters.minFee # None /\ row.fee < Get(p.filters.minFee))
  /\ ~(p.filters.maxFee # None /\ row.fee > Get(p.filters.maxFee))

\* A faulty addRow that appends without consulting or recording seenTx (C1).
addRowForgetsSeen(row) ==
  [added |-> TRUE,
   allRows |-> Append(allRows, row),
   seenTx |-> seenTx,
   matchingRowCount |-> matchingRowCount,
   reachedLimit |-> reachedLimit]

\* The time bounds, as addRow and the final filter apply them.
withinTimeBounds(row) ==
  /\ (p.from = None \/ row.timestamp >= Get(p.from))
  /\ (p.to = None \/ row.timestamp <= Get(p.to))

\* A faulty addRow that raises reachedLimit one match too late (C19).
addRowPastLimit(row) ==
  IF row.txHash \in seenTx
  THEN [added |-> FALSE, allRows |-> allRows, seenTx |-> seenTx,
        matchingRowCount |-> matchingRowCount, reachedLimit |-> reachedLimit]
  ELSE LET matches == matchesFilters(row) /\ withinTimeBounds(row)
           count == IF matches THEN matchingRowCount + 1 ELSE matchingRowCount
       IN  [added |-> TRUE,
            allRows |-> Append(allRows, row),
            seenTx |-> seenTx \cup {row.txHash},
            matchingRowCount |-> count,
            reachedLimit |-> reachedLimit \/ (matches /\ limit > 0 /\ count > limit)]

\* addRow: the accumulated state after the call, and whether the row was added.
addRow(row) ==
  IF row.txHash \in seenTx
  THEN [added |-> FALSE, allRows |-> allRows, seenTx |-> seenTx,
        matchingRowCount |-> matchingRowCount, reachedLimit |-> reachedLimit]
  ELSE LET matches == matchesFilters(row) /\ withinTimeBounds(row)
           count == IF matches THEN matchingRowCount + 1 ELSE matchingRowCount
       IN  [added |-> TRUE,
            allRows |-> Append(allRows, row),
            seenTx |-> seenTx \cup {row.txHash},
            matchingRowCount |-> count,
            reachedLimit |-> reachedLimit \/ (matches /\ limit > 0 /\ count >= limit)]

\* A faulty search that looks at the root invocation only (C6).
findInvocationAtRoot(invocation) ==
  IF "contract_address" \in DOMAIN invocation
     /\ toLowerCase(invocation.contract_address) = toLowerCase(p.address)
  THEN Some(invocation) ELSE None

RECURSIVE findInvocationForAddress(_)
findInvocationForAddress(invocation) ==
  LET contractAddress == IF "contract_address" \in DOMAIN invocation
                         THEN toLowerCase(invocation.contract_address) ELSE ""
      nested == IF "calls" \in DOMAIN invocation THEN invocation.calls ELSE << >>
      firstFound == { i \in 1..Len(nested) :
                        /\ findInvocationForAddress(nested[i]) # None
                        /\ \A j \in 1..(i - 1) : findInvocationForAddress(nested[j]) = None }
  IN  IF contractAddress = addressLower THEN Some(invocation)
      ELSE IF firstFound = {} THEN None
      ELSE findInvocationForAddress(nested[Get(firstFound)])

extractInvocationFromTrace(trace) ==
  LET tryInvocation(candidate) ==
        IF candidate = None THEN None ELSE findInvocationForAddress(Get(candidate))
      execution == IF trace.invoke_tx_trace = None THEN None
                   ELSE Get(trace.invoke_tx_trace).execute_invocation
      fromInvoke == IF execution # None /\ "contract_address" \in DOMAIN Get(execution)
                    THEN tryInvocation(execution) ELSE None
      fromDeploy == IF trace.deploy_account_tx_trace = None THEN None
                    ELSE tryInvocation(Get(trace.deploy_account_tx_trace).constructor_invocation)
      fromL1Handler == IF trace.l1_handler_tx_trace = None THEN None
                       ELSE tryInvocation(Get(trace.l1_handler_tx_trace).function_invocation)
      fromDeclare == IF trace.declare_tx_trace = None THEN None
                     ELSE tryInvocation(Get(trace.declare_tx_trace).validate_invocation)
  IN  IF fromInvoke # None THEN fromInvoke
      ELSE IF fromDeploy # None THEN fromDeploy
      ELSE IF fromL1Handler # None THEN fromL1Handler
      ELSE fromDeclare

\* A faulty status that ignores the revert reason (C28).
statusOfExecution(receipt) ==
  IF receipt.execution_status = Some("REVERTED") THEN "REJECTED" ELSE "ACCEPTED"

\* receipt.execution_status === 'REVERTED' || receipt.revert_reason
statusOf(receipt) ==
  IF receipt.execution_status = Some("REVERTED")
     \/ (receipt.revert_reason # None /\ receipt.revert_reason # Some(""))
  THEN "REJECTED" ELSE "ACCEPTED"

\* a || b on optional strings
OrElse(a, b) == IF a # None /\ a # Some("") THEN a ELSE b

\* The row the event scanner builds from a receipt and a transaction object.
eventRow(txHash, receipt, tx, timestamp) ==
  LET forContract == { i \in 1..Len(receipt.events) :
                         /\ toLowerCase(receipt.events[i].from_address) = addressLower
                         /\ \A j \in 1..(i - 1) :
                              toLowerCase(receipt.events[j].from_address) # addressLower }
      eventKey == IF forContract = {} THEN None
                  ELSE LET keys == receipt.events[Get(forContract)].keys
                       IN  IF keys = << >> THEN None ELSE Some(keys[1])
  IN  [timestamp |-> timestamp,
       txHash |-> txHash,
       type |-> toTxType(OrElse(receipt.type, tx.type)),
       entrypoint |-> decodeSelector(
          OrElse(OrElse(tx.entry_point_selector_name, tx.entry_point_selector), eventKey)),
       caller |-> Get(OrElse(receipt.sender_address,
                        OrElse(tx.sender_address, OrElse(tx.contract_address, Some("0x0"))))),
       to |-> p.address,
       fee |-> toFee(receipt.actual_fee),
       status |-> statusOf(receipt),
       network |-> p.network]

\* The row the trace fallback builds from the matched invocation and a receipt
\* (the transactions of a fetched block carry no sender or contract address).
traceRow(txHash, receipt, tx, invocation, timestamp) ==
  [timestamp |-> timestamp,
   txHash |-> txHash,
   type |-> toTxType(OrElse(receipt.type, tx.type)),
   entrypoint |-> decodeSelector(invocation.entry_point_selector),
   caller |-> Get(OrElse(invocation.caller_address,
                    OrElse(receipt.sender_address, Some("0x0")))),
   to |-> IF invocation.contract_address # "" THEN invocation.contract_address ELSE p.address,
   fee |-> toFee(receipt.actual_fee),
   status |-> statusOf(receipt),
   network |-> p.network]

\* The final filter: matchesFilters and the time bounds.
passesFinalFilter(row) ==
  /\ matchesFilters(row)
  /\ ~(p.from # None /\ row.timestamp < Get(p.from))
  /\ ~(p.to # None /\ row.timestamp > Get(p.to))

\* allRows.filter(...)
RECURSIVE filterRows(_)
filterRows(rows) ==
  IF rows = << >> THEN << >>
  ELSE IF passesFinalFilter(Head(rows)) THEN << Head(rows) >> \o filterRows(Tail(rows))
  ELSE filterRows(Tail(rows))

\* A faulty sort that leaves the rows in accumulation order (C3).
sortOmitted(rows) == rows

\* rows.sort((a, b) => b.timestamp - a.timestamp): a stable sort.
RECURSIVE insertByTimestamp(_, _)
insertByTimestamp(sorted, row) ==
  IF sorted = << >> THEN << row >>
  ELSE IF Head(sorted).timestamp >= row.timestamp
       THEN << Head(sorted) >> \o insertByTimestamp(Tail(sorted), row)
       ELSE << row >> \o sorted
RECURSIVE sortByTimestampDesc(_)
sortByTimestampDesc(rows) ==
  IF rows = << >> THEN << >>
  ELSE insertByTimestamp(sortByTimestampDesc(SubSeq(rows, 1, Len(rows) - 1)), rows[Len(rows)])

\* Array.prototype.slice(start, end)
slice(rows, start, end) ==
  SubSeq(rows, start + 1, IF end < Len(rows) THEN end ELSE Len(rows))

\* A faulty result whose page starts one page late (C4).
assembleFromNextPage ==
  LET filteredRows == sortByTimestampDesc(filterRows(allRows))
      start == p.page * p.pageSize
  IN  [rows |-> slice(filteredRows, start, start + p.pageSize),
       totalEstimated |-> Len(filteredRows),
       hasMore |-> Some(\/ start + p.pageSize < Len(filteredRows)
                        \/ reachedLimit
                        \/ nextContinuationToken # None
                        \/ ~txScanComplete)]
\* A faulty result whose hasMore forgets an unfinished fallback scan (C5).
assembleIgnoringScan ==
  LET filteredRows == sortByTimestampDesc(filterRows(allRows))
      start == (p.page - 1) * p.pageSize
  IN  [rows |-> slice(filteredRows, start, start + p.pageSize),
       totalEstimated |-> Len(filteredRows),
       hasMore |-> Some(\/ start + p.pageSize < Len(filteredRows)
                        \/ reachedLimit
                        \/ nextContinuationToken # None)]

\* What fetchInteractions returns after the scans.
assemble ==
  LET filteredRows == sortByTimestampDesc(filterRows(allRows))
      start == (p.page - 1) * p.pageSize
  IN  [rows |-> slice(filteredRows, start, start + p.pageSize),
       totalEstimated |-> Len(filteredRows),
       hasMore |-> Some(\/ start + p.pageSize < Len(filteredRows)
                        \/ reachedLimit
                        \/ nextContinuationToken # None
                        \/ ~txScanComplete)]

(***************************************************************************)
(* The run, one action per await (a node call through callWithLimiter).    *)
(* The run fails (pc = "failed") when a call outside a try block throws.   *)
(***************************************************************************)
\* A faulty lookup that asks the node whether or not h is cached (C39).
timestampCallUncached(h, ok) == << Call("getBlockWithTxHashes", Some(h), "", None, ok) >>

\* getBlockTimestamp(h): the node is called only when h is not cached.
timestampCall(h, ok) ==
  IF h \in DOMAIN blockTimestampCache THEN << >>
  ELSE << Call("getBlockWithTxHashes", Some(h), "", None, ok) >>
cacheWith(h) ==
  IF h \in DOMAIN blockTimestampCache THEN blockTimestampCache
  ELSE (h :> BlockTimestamp(h)) @@ blockTimestampCache
\* The outcomes a timestamp lookup can have: a cached height cannot fail.
timestampOutcomes(h) ==
  IF h \in DOMAIN blockTimestampCache \/ ~MayFail THEN {TRUE} ELSE BOOLEAN

FetchLatest ==
  /\ pc = "latest"
  /\ \E ok \in (IF MayFail THEN BOOLEAN ELSE {TRUE}) :
       /\ calls' = Append(calls, Call("getBlockWithTxHashes", None, "latest", None, ok))
       /\ IF ok
          THEN /\ latestBlockNumber' = MaxHeight
               /\ latestTimestamp' = BlockTimestamp(MaxHeight)
               /\ blockTimestampCache' = (MaxHeight :> BlockTimestamp(MaxHeight)) @@ blockTimestampCache
               /\ pc' = "earliest"
               /\ UNCHANGED failures
          ELSE /\ pc' = "failed"
               /\ failures' = failures + 1
               /\ UNCHANGED << latestBlockNumber, latestTimestamp, blockTimestampCache >>
  /\ UNCHANGED << inputVars, earliestTimestamp, searchVars, windowVars, rowVars, eventVars,
                  fallbackVars, endVars >>
  /\ throws
  /\ UNCHANGED << limiterVars, retryVars >>

FetchEarliest ==
  /\ pc = "earliest"
  /\ \E ok \in timestampOutcomes(0) :
       /\ calls' = calls \o timestampCall(0, ok)
       /\ IF ok
          THEN /\ blockTimestampCache' = cacheWith(0)
               /\ earliestTimestamp' = cacheWith(0)[0]
               /\ pc' = "from"
               /\ UNCHANGED failures
          ELSE /\ pc' = "failed"
               /\ failures' = failures + 1
               /\ UNCHANGED << blockTimestampCache, earliestTimestamp >>
  /\ UNCHANGED << inputVars, latestBlockNumber, latestTimestamp, searchVars, windowVars,
                  rowVars, eventVars, fallbackVars, endVars >>
  /\ throws
  /\ UNCHANGED << limiterVars, retryVars >>

\* findBoundaryBlock up to its loop: the early returns, as an optional result
\* (None: the search has to run).
\* Faulty early returns that treat a target equal to the latest or the
\* earliest timestamp as outside the chain (C16).
boundaryEarlyReturnStrict(targetTimestamp, type) ==
  IF targetTimestamp = None
  THEN Some(Some(IF type = "from" THEN 0 ELSE latestBlockNumber))
  ELSE IF type = "from"
  THEN IF Get(targetTimestamp) >= latestTimestamp THEN Some(None)
       ELSE IF Get(targetTimestamp) <= earliestTimestamp THEN Some(Some(0))
       ELSE None
  ELSE IF Get(targetTimestamp) <= earliestTimestamp THEN Some(None)
       ELSE IF Get(targetTimestamp) >= latestTimestamp THEN Some(Some(latestBlockNumber))
       ELSE None

boundaryEarlyReturn(targetTimestamp, type) ==
  IF targetTimestamp = None
  THEN Some(Some(IF type = "from" THEN 0 ELSE latestBlockNumber))
  ELSE IF type = "from"
  THEN IF Get(targetTimestamp) > latestTimestamp THEN Some(None)
       ELSE IF Get(targetTimestamp) <= earliestTimestamp THEN Some(Some(0))
       ELSE None
  ELSE IF Get(targetTimestamp) < earliestTimestamp THEN Some(None)
       ELSE IF Get(targetTimestamp) >= latestTimestamp THEN Some(Some(latestBlockNumber))
       ELSE None

setBoundary(type, value) ==
  IF type = "from" THEN fromBlock' = value /\ UNCHANGED toBlock
  ELSE toBlock' = value /\ UNCHANGED fromBlock
targetOf(type) == IF type = "from" THEN p.from ELSE p.to
afterBoundary(type) == IF type = "from" THEN "to" ELSE "window"
loopOf(type) == IF type = "from" THEN "fromLoop" ELSE "toLoop"

BoundaryStart(type) ==
  /\ pc = type
  /\ LET early == boundaryEarlyReturn(targetOf(type), type)
     IN  IF early # None
         THEN /\ setBoundary(type, Get(early))
              /\ pc' = afterBoundary(type)
              /\ UNCHANGED searchVars
         ELSE /\ low' = 0
              /\ high' = latestBlockNumber
              /\ searchResult' = (IF type = "from" THEN latestBlockNumber ELSE 0)
              /\ lookups' = 0
              /\ pc' = loopOf(type)
              /\ UNCHANGED windowVars
  /\ UNCHANGED << inputVars, calls, failures, blockTimestampCache, headVars, rowVars,
                  eventVars, fallbackVars, endVars >>
  /\ throws
  /\ UNCHANGED << limiterVars, retryVars >>

\* A faulty midpoint that probes the lowest height left (C38).
midpointLowest(lo, hi) == lo

\* Math.floor((low + high) / 2)
midpoint(lo, hi) == (lo + hi) \div 2

\* One evaluation of findBoundaryBlock's while loop: the exit, or one iteration.
BoundaryLoop(type) ==
  /\ pc = loopOf(type)
  /\ IF low > high
     THEN /\ setBoundary(type, Some(searchResult))
          /\ pc' = afterBoundary(type)
          /\ UNCHANGED << searchVars, calls, failures, blockTimestampCache >>
     ELSE LET mid == midpoint(low, high)
              targetTimestamp == Get(targetOf(type))
          IN  \E ok \in timestampOutcomes(mid) :
                /\ calls' = calls \o timestampCall(mid, ok)
                /\ lookups' = lookups + 1
                /\ UNCHANGED windowVars
                /\ IF ~ok
                   THEN /\ pc' = "failed"
                        /\ failures' = failures + 1
                        /\ UNCHANGED << low, high, searchResult, blockTimestampCache >>
                   ELSE LET timestamp == cacheWith(mid)[mid]
                        IN  /\ blockTimestampCache' = cacheWith(mid)
                            /\ pc' = pc
                            /\ UNCHANGED failures
                            /\ IF type = "from"
                               THEN IF timestamp >= targetTimestamp
                                    THEN searchResult' = mid /\ high' = mid - 1 /\ UNCHANGED low
                                    ELSE low' = mid + 1 /\ UNCHANGED << high, searchResult >>
                               ELSE IF timestamp <= targetTimestamp
                                    THEN searchResult' = mid /\ low' = mid + 1 /\ UNCHANGED high
                                    ELSE high' = mid - 1 /\ UNCHANGED << low, searchResult >>
  /\ UNCHANGED << inputVars, headVars, rowVars, eventVars, fallbackVars, endVars >>
  /\ throws
  /\ UNCHANGED << limiterVars, retryVars >>

emptyResult == [rows |-> << >>, totalEstimated |-> 0, hasMore |-> None]

\* A faulty test that misses a from height above the to height (C17).
windowIsUnresolved ==
  (p.from # None /\ fromBlock = None) \/ (p.to # None /\ toBlock = None)

\* The conditions of the two short-circuits.
windowIsEmpty ==
  \/ (p.from # None /\ fromBlock = None) \/ (p.to # None /\ toBlock = None)
  \/ (fromBlock # None /\ toBlock # None /\ Get(fromBlock) > Get(toBlock))

\* The two short-circuits after the boundary searches.
CheckWindow ==
  /\ pc = "window"
  /\ IF windowIsEmpty
     THEN result' = Some(emptyResult) /\ pc' = "done"
     ELSE pc' = "events" /\ UNCHANGED result
  /\ UNCHANGED << inputVars, calls, failures, blockTimestampCache, headVars, searchVars,
                  windowVars, rowVars, eventVars, fallbackVars, warned >>
  /\ throws
  /\ UNCHANGED << limiterVars, retryVars >>

\* A faulty page fetch whose failure ends the scan with the rows so far (C24).
FetchEventsPartial ==
  /\ pc = "events"
  /\ \E ok \in (IF MayFail THEN BOOLEAN ELSE {TRUE}) :
       /\ calls' = Append(calls, Call("getEvents", None, "", continuation, ok))
       /\ IF ok
          THEN LET page == EventsPage(eventLog, continuation, blockRangeStart, blockRangeEnd)
               IN  /\ continuation' = page.continuation_token
                   /\ nextContinuationToken' = page.continuation_token
                   /\ events' = page.events
                   /\ eventIndex' = 1
                   /\ pc' = "event"
                   /\ UNCHANGED failures
          ELSE /\ pc' = "assemble"
               /\ failures' = failures + 1
               /\ UNCHANGED eventVars
  /\ UNCHANGED << inputVars, blockTimestampCache, headVars, searchVars, windowVars, rowVars,
                  fallbackVars, endVars >>
  /\ throws
  /\ UNCHANGED << limiterVars, retryVars >>

\* One page of the event log.
FetchEvents ==
  /\ pc = "events"
  /\ \E ok \in (IF MayFail THEN BOOLEAN ELSE {TRUE}) :
       /\ calls' = Append(calls, Call("getEvents", None, "", continuation, ok))
       /\ IF ok
          THEN LET page == EventsPage(eventLog, continuation, blockRangeStart, blockRangeEnd)
               IN  /\ continuation' = page.continuation_token
                   /\ nextContinuationToken' = page.continuation_token
                   /\ events' = page.events
                   /\ eventIndex' = 1
                   /\ pc' = "event"
                   /\ UNCHANGED failures
          ELSE /\ pc' = "failed"
               /\ failures' = failures + 1
               /\ UNCHANGED eventVars
  /\ UNCHANGED << inputVars, blockTimestampCache, headVars, searchVars, windowVars, rowVars,
                  fallbackVars, endVars >>
  /\ throws
  /\ UNCHANGED << limiterVars, retryVars >>

\* What can happen to one transaction a scanner processes.
processingOutcomes(height) ==
  {"row"}
  \cup (IF MayFail THEN {"receiptThrows", "noReceipt"} ELSE {})
  \cup (IF MayFail /\ height \notin DOMAIN blockTimestampCache THEN {"timestampThrows"} ELSE {})

\* A faulty event loop without the try/catch around one event (C22).
ProcessEventUncaught ==
  /\ pc = "event"
  /\ eventIndex <= Len(events)
  /\ LET txHash == events[eventIndex]
         receipt == Receipt(txHash)
         height == IF receipt.block_number # None THEN Get(receipt.block_number)
                   ELSE EventBlock(txHash)
         receiptCall(ok) == Call("getTransactionReceipt", None, txHash, None, ok)
         transactionCall(ok) == Call("getTransactionByHash", None, txHash, None, ok)
     IN  IF txHash = "" \/ txHash \in seenTx
         THEN /\ eventIndex' = eventIndex + 1
              /\ UNCHANGED << calls, failures, blockTimestampCache, rowVars, continuation >>
         ELSE \E outcome \in processingOutcomes(height)
                               \cup (IF MayFail THEN {"transactionThrows"} ELSE {}) :
                /\ failures' = (IF outcome = "row" THEN failures ELSE failures + 1)
                /\ calls' = calls \o
                     (CASE outcome = "receiptThrows" -> << receiptCall(FALSE) >>
                        [] outcome = "noReceipt" -> << receiptCall(TRUE) >>
                        [] outcome = "timestampThrows" ->
                             << receiptCall(TRUE) >> \o timestampCall(height, FALSE)
                        [] outcome = "transactionThrows" ->
                             << receiptCall(TRUE) >> \o timestampCall(height, TRUE)
                               \o << transactionCall(FALSE) >>
                        [] OTHER ->
                             << receiptCall(TRUE) >> \o timestampCall(height, TRUE)
                               \o << transactionCall(TRUE) >>)
                /\ blockTimestampCache' =
                     (IF outcome \in {"row", "transactionThrows"} THEN cacheWith(height)
                      ELSE blockTimestampCache)
                /\ IF outcome = "row"
                   THEN LET added == addRow(eventRow(txHash, receipt, Transaction(txHash),
                                                     cacheWith(height)[height]))
                        IN  /\ allRows' = added.allRows
                            /\ seenTx' = added.seenTx
                            /\ matchingRowCount' = added.matchingRowCount
                            /\ reachedLimit' = added.reachedLimit
                            /\ IF added.added /\ added.reachedLimit
                               THEN continuation' = None /\ eventIndex' = Len(events) + 1
                               ELSE eventIndex' = eventIndex + 1 /\ UNCHANGED continuation
                   ELSE /\ eventIndex' = eventIndex + 1
                        /\ UNCHANGED << rowVars, continuation >>
  /\ pc' = (IF failures' > failures THEN "failed" ELSE pc)
  /\ UNCHANGED << inputVars, headVars, searchVars, windowVars, nextContinuationToken,
                  events, fallbackVars, endVars >>
  /\ throws
  /\ UNCHANGED << limiterVars, retryVars >>

\* The body of the event loop for events[eventIndex].
ProcessEvent ==
  /\ pc = "event"
  /\ eventIndex <= Len(events)
  /\ LET txHash == events[eventIndex]
         receipt == Receipt(txHash)
         height == IF receipt.block_number # None THEN Get(receipt.block_number)
                   ELSE EventBlock(txHash)
         receiptCall(ok) == Call("getTransactionReceipt", None, txHash, None, ok)
         transactionCall(ok) == Call("getTransactionByHash", None, txHash, None, ok)
     IN  IF txHash = "" \/ txHash \in seenTx
         THEN /\ eventIndex' = eventIndex + 1
              /\ UNCHANGED << calls, failures, blockTimestampCache, rowVars, continuation >>
         ELSE \E outcome \in processingOutcomes(height)
                               \cup (IF MayFail THEN {"transactionThrows"} ELSE {}) :
                /\ failures' = (IF outcome = "row" THEN failures ELSE failures + 1)
                /\ calls' = calls \o
                     (CASE outcome = "receiptThrows" -> << receiptCall(FALSE) >>
                        [] outcome = "noReceipt" -> << receiptCall(TRUE) >>
                        [] outcome = "timestampThrows" ->
                             << receiptCall(TRUE) >> \o timestampCall(height, FALSE)
                        [] outcome = "transactionThrows" ->
                             << receiptCall(TRUE) >> \o timestampCall(height, TRUE)
                               \o << transactionCall(FALSE) >>
                        [] OTHER ->
                             << receiptCall(TRUE) >> \o timestampCall(height, TRUE)
                               \o << transactionCall(TRUE) >>)
                /\ blockTimestampCache' =
                     (IF outcome \in {"row", "transactionThrows"} THEN cacheWith(height)
                      ELSE blockTimestampCache)
                /\ IF outcome = "row"
                   THEN LET added == addRow(eventRow(txHash, receipt, Transaction(txHash),
                                                     cacheWith(height)[height]))
                        IN  /\ allRows' = added.allRows
                            /\ seenTx' = added.seenTx
                            /\ matchingRowCount' = added.matchingRowCount
                            /\ reachedLimit' = added.reachedLimit
                            /\ IF added.added /\ added.reachedLimit
                               THEN continuation' = None /\ eventIndex' = Len(events) + 1
                               ELSE eventIndex' = eventIndex + 1 /\ UNCHANGED continuation
                   ELSE /\ eventIndex' = eventIndex + 1
                        /\ UNCHANGED << rowVars, continuation >>
  /\ UNCHANGED << inputVars, pc, headVars, searchVars, windowVars, nextContinuationToken,
                  events, fallbackVars, endVars >>
  /\ throws
  /\ UNCHANGED << limiterVars, retryVars >>

\* A faulty loop condition that tests the token of the last page, which the
\* break does not clear (C18).
EndEventPageIgnoringBreak ==
  /\ pc = "event"
  /\ eventIndex > Len(events)
  /\ IF nextContinuationToken # None
     THEN pc' = "events" /\ UNCHANGED fallbackVars
     ELSE /\ pc' = "block"
          /\ blockNumber' = blockRangeEnd
          /\ txScanComplete' = TRUE
          /\ fallbackBudgetExhausted' = FALSE
          /\ remainingTraceLookups' = maxTraceLookups
          /\ UNCHANGED << unseenTransactions, txIndex >>
  /\ UNCHANGED << inputVars, calls, failures, blockTimestampCache, headVars, searchVars,
                  windowVars, rowVars, eventVars, endVars >>
  /\ throws
  /\ UNCHANGED << limiterVars, retryVars >>

\* A faulty loop end that leaves a page before its events are processed (C20).
EndEventPageEarly ==
  /\ pc = "event"
  /\ IF continuation # None
     THEN pc' = "events" /\ UNCHANGED fallbackVars
     ELSE /\ pc' = "block"
          /\ blockNumber' = blockRangeEnd
          /\ txScanComplete' = TRUE
          /\ fallbackBudgetExhausted' = FALSE
          /\ remainingTraceLookups' = maxTraceLookups
          /\ UNCHANGED << unseenTransactions, txIndex >>
  /\ UNCHANGED << inputVars, calls, failures, blockTimestampCache, headVars, searchVars,
                  windowVars, rowVars, eventVars, endVars >>
  /\ throws
  /\ UNCHANGED << limiterVars, retryVars >>

\* The end of the event loop: the next page while a token is held, else the
\* trace fallback starts at the top of the block window.
EndEventPage ==
  /\ pc = "event"
  /\ eventIndex > Len(events)
  /\ IF continuation # None
     THEN pc' = "events" /\ UNCHANGED fallbackVars
     ELSE /\ pc' = "block"
          /\ blockNumber' = blockRangeEnd
          /\ txScanComplete' = TRUE
          /\ fallbackBudgetExhausted' = FALSE
          /\ remainingTraceLookups' = maxTraceLookups
          /\ UNCHANGED << unseenTransactions, txIndex >>
  /\ UNCHANGED << inputVars, calls, failures, blockTimestampCache, headVars, searchVars,
                  windowVars, rowVars, eventVars, endVars >>
  /\ throws
  /\ UNCHANGED << limiterVars, retryVars >>

\* A faulty budget check that lets the budget run below zero (C7).
lookupBudgetOverdrawn == remainingTraceLookups < 0

\* The budget check at the head of both fallback loops.
lookupBudgetSpent == remainingTraceLookups <= 0

\* tx.transaction_hash || tx.hash, Boolean(hash) && !seenTx.has(hash)
RECURSIVE selectUnseen(_)
selectUnseen(transactions) ==
  IF transactions = << >> THEN << >>
  ELSE LET hash == Head(transactions).transaction_hash
       IN  IF hash # None /\ hash # Some("") /\ Get(hash) \notin seenTx
           THEN << Head(transactions) >> \o selectUnseen(Tail(transactions))
           ELSE selectUnseen(Tail(transactions))

\* One evaluation of the block loop: its exit, a break, or the block fetch.
FallbackBlock ==
  /\ pc = "block"
  /\ IF blockNumber < blockRangeStart
     THEN /\ pc' = "assemble"
          /\ UNCHANGED << calls, failures, blockTimestampCache, fallbackVars >>
     ELSE IF reachedLimit
     THEN /\ txScanComplete' = FALSE
          /\ pc' = "assemble"
          /\ UNCHANGED << calls, failures, blockTimestampCache, blockNumber, unseenTransactions,
                          txIndex, fallbackBudgetExhausted, remainingTraceLookups >>
     ELSE IF lookupBudgetSpent
     THEN /\ txScanComplete' = FALSE
          /\ fallbackBudgetExhausted' = TRUE
          /\ pc' = "assemble"
          /\ UNCHANGED << calls, failures, blockTimestampCache, blockNumber, unseenTransactions,
                          txIndex, remainingTraceLookups >>
     ELSE \E ok \in (IF MayFail THEN BOOLEAN ELSE {TRUE}) :
            /\ calls' = Append(calls, Call("getBlockWithTxs", Some(blockNumber), "", None, ok))
            /\ UNCHANGED << txScanComplete, fallbackBudgetExhausted >>
            /\ IF ~ok
               THEN /\ failures' = failures + 1
                    /\ blockNumber' = blockNumber - 1
                    /\ pc' = "block"
                    /\ UNCHANGED << blockTimestampCache, unseenTransactions, txIndex,
                                    remainingTraceLookups >>
               ELSE LET unseen == selectUnseen(BlockTransactions(blockNumber))
                    IN  /\ remainingTraceLookups' = remainingTraceLookups - 1
                        /\ blockTimestampCache' =
                             (blockNumber :> BlockTimestamp(blockNumber)) @@ blockTimestampCache
                        /\ unseenTransactions' = unseen
                        /\ txIndex' = 1
                        /\ UNCHANGED failures
                        /\ IF unseen = << >>
                           THEN blockNumber' = blockNumber - 1 /\ pc' = "block"
                           ELSE pc' = "tx" /\ UNCHANGED blockNumber
  /\ UNCHANGED << inputVars, headVars, searchVars, windowVars, rowVars, eventVars, endVars >>
  /\ throws
  /\ UNCHANGED << limiterVars, retryVars >>

\* One evaluation of the transaction loop of the current block.
FallbackTx ==
  /\ pc = "tx"
  /\ IF txIndex > Len(unseenTransactions)
     THEN /\ blockNumber' = blockNumber - 1
          /\ pc' = "block"
          /\ UNCHANGED << calls, failures, blockTimestampCache, rowVars, unseenTransactions,
                          txIndex, txScanComplete, fallbackBudgetExhausted,
                          remainingTraceLookups >>
     ELSE IF reachedLimit
     THEN /\ txScanComplete' = FALSE
          /\ pc' = "assemble"
          /\ UNCHANGED << calls, failures, blockTimestampCache, rowVars, blockNumber,
                          unseenTransactions, txIndex, fallbackBudgetExhausted,
                          remainingTraceLookups >>
     ELSE IF lookupBudgetSpent
     THEN /\ txScanComplete' = FALSE
          /\ fallbackBudgetExhausted' = TRUE
          /\ pc' = "assemble"
          /\ UNCHANGED << calls, failures, blockTimestampCache, rowVars, blockNumber,
                          unseenTransactions, txIndex, remainingTraceLookups >>
     ELSE LET tx == unseenTransactions[txIndex]
              txHash == Get(tx.transaction_hash)
              invocation == extractInvocationFromTrace(Trace(txHash))
              matched == invocation # None
                         /\ toLowerCase(Get(invocation).contract_address) = addressLower
              receipt == Receipt(txHash)
              height == IF receipt.block_number # None THEN Get(receipt.block_number)
                        ELSE blockNumber
              traceCall(ok) == Call("getTransactionTrace", None, txHash, None, ok)
              receiptCall(ok) == Call("getTransactionReceipt", None, txHash, None, ok)
          IN  \E outcome \in (IF matched THEN processingOutcomes(height) ELSE {"noMatch"})
                               \cup (IF MayFail THEN {"traceThrows"} ELSE {}) :
                /\ failures' = (IF outcome \in {"row", "noMatch"} THEN failures
                                ELSE failures + 1)
                /\ remainingTraceLookups' =
                     (IF outcome = "traceThrows" THEN remainingTraceLookups
                      ELSE remainingTraceLookups - 1)
                /\ calls' = calls \o
                     (CASE outcome = "traceThrows" -> << traceCall(FALSE) >>
                        [] outcome = "noMatch" -> << traceCall(TRUE) >>
                        [] outcome = "receiptThrows" -> << traceCall(TRUE), receiptCall(FALSE) >>
                        [] outcome = "noReceipt" -> << traceCall(TRUE), receiptCall(TRUE) >>
                        [] outcome = "timestampThrows" ->
                             << traceCall(TRUE), receiptCall(TRUE) >>
                               \o timestampCall(height, FALSE)
                        [] OTHER ->
                             << traceCall(TRUE), receiptCall(TRUE) >>
                               \o timestampCall(height, TRUE))
                /\ blockTimestampCache' =
                     (IF outcome = "row" THEN cacheWith(height) ELSE blockTimestampCache)
                /\ IF outcome = "row"
                   THEN LET added == addRow(traceRow(txHash, receipt, tx, Get(invocation),
                                                     cacheWith(height)[height]))
                        IN  /\ allRows' = added.allRows
                            /\ seenTx' = added.seenTx
                            /\ matchingRowCount' = added.matchingRowCount
                            /\ reachedLimit' = added.reachedLimit
                   ELSE UNCHANGED rowVars
                /\ txIndex' = txIndex + 1
                /\ pc' = "tx"
                /\ UNCHANGED << blockNumber, unseenTransactions, txScanComplete,
                                fallbackBudgetExhausted >>
  /\ UNCHANGED << inputVars, headVars, searchVars, windowVars, eventVars, endVars >>
  /\ throws
  /\ UNCHANGED << limiterVars, retryVars >>

\* The warning, the final filter, the sort, the slice and the return.
Finish ==
  /\ pc = "assemble"
  /\ warned' = fallbackBudgetExhausted
  /\ result' = Some(assemble)
  /\ pc' = "done"
  /\ UNCHANGED << inputVars, calls, failures, blockTimestampCache, headVars, searchVars,
                  windowVars, rowVars, eventVars, fallbackVars >>
  /\ throws
  /\ UNCHANGED << limiterVars, retryVars >>

\* The state a call of fetchInteractions starts from, after an earlier run.
freshRun ==
  /\ pc' = "latest"
  /\ calls' = << >>
  /\ failures' = 0
  /\ thrown' = "none"
  /\ blockTimestampCache' = << >>
  /\ latestBlockNumber' = 0 /\ latestTimestamp' = 0 /\ earliestTimestamp' = 0
  /\ low' = 0 /\ high' = 0 /\ searchResult' = 0 /\ lookups' = 0
  /\ fromBlock' = None /\ toBlock' = None
  /\ continuation' = None /\ nextContinuationToken' = None
  /\ events' = << >> /\ eventIndex' = 1
  /\ matchingRowCount' = 0 /\ reachedLimit' = FALSE
  /\ blockNumber' = 0 /\ unseenTransactions' = << >> /\ txIndex' = 1
  /\ txScanComplete' = TRUE /\ fallbackBudgetExhausted' = FALSE
  /\ remainingTraceLookups' = 0
  /\ result' = None
  /\ warned' = FALSE

\* A faulty restart whose rows and seen hashes outlive the run (C27).
RestartSharingRows(nextPage) ==
  /\ pc = "done" /\ failures = 0 /\ previous = None
  /\ previous' = Some([page |-> p.page, result |-> Get(result)])
  /\ p' = [p EXCEPT !.page = nextPage]
  /\ freshRun
  /\ UNCHANGED << allRows, seenTx >>
  /\ UNCHANGED << eventLog, maxTraceLookups, blockTimestamps >>
  /\ UNCHANGED << limiterVars, retryVars >>

\* The caller runs the same query again, for the same or another page, against
\* the unchanged node: allRows, seenTx and blockTimestampCache are created anew.
Restart(nextPage) ==
  /\ pc = "done" /\ failures = 0 /\ previous = None
  /\ previous' = Some([page |-> p.page, result |-> Get(result)])
  /\ p' = [p EXCEPT !.page = nextPage]
  /\ freshRun
  /\ allRows' = << >> /\ seenTx' = {}
  /\ UNCHANGED << eventLog, maxTraceLookups, blockTimestamps >>
  /\ UNCHANGED << limiterVars, retryVars >>

(***************************************************************************)
(* RpcRateLimiter.  With requestsPerSecond = n / RateDenominator tokens    *)
(* per second, one tick adds n token units, one token is TokenUnit units   *)
(* and the bucket holds n * TicksPerSecond units (requestsPerSecond        *)
(* tokens).                                                                *)
(***************************************************************************)
TicksPerSecond == 2
RateDenominator == 2
TokenUnit == TicksPerSecond * RateDenominator
Calls == 1..MaxCalls
\* The count of runTask calls is exact up to MaxAdmitted and saturates there.
MaxAdmitted == 1
Max(a, b) == IF a >= b THEN a ELSE b
Min(a, b) == IF a <= b THEN a ELSE b
capacity == requestsPerSecond * TicksPerSecond

\* The fields of the limiter a handler works on, and the starts it performs.
limiterState ==
  [tokens |-> tokens, active |-> active, queue |-> queue, timer |-> timer,
   pending |-> pendingTimers, sinceRefill |-> sinceRefill, starts |-> << >>]

refillTokens(L) ==
  IF L.sinceRefill <= 0 THEN L
  ELSE [L EXCEPT !.tokens = Min(capacity, L.tokens + L.sinceRefill * requestsPerSecond),
                 !.sinceRefill = 0]

\* A faulty admission test that is off by one on the concurrency limit (C9).
canRunAtLimit(L) == L.active <= maxConcurrency /\ L.tokens >= TokenUnit

canRunImmediately(L) == L.active < maxConcurrency /\ L.tokens >= TokenUnit

runTask(L, c) ==
  [L EXCEPT !.active = L.active + 1,
            !.tokens = Max(0, L.tokens - TokenUnit),
            !.starts = Append(L.starts,
                         [call |-> c, tokensBefore |-> L.tokens, activeBefore |-> L.active,
                          tokensAfter |-> Max(0, L.tokens - TokenUnit),
                          activeAfter |-> L.active + 1,
                          fromQueue |-> L.queue # << >> /\ Head(L.queue) = c,
                          waiting |-> IF L.queue # << >> /\ Head(L.queue) = c
                                      THEN Tail(L.queue) ELSE L.queue])]

\* Math.max(10, ceil(deficit / requestsPerSecond * 1000)) ms, in whole ticks
timeUntilNextToken(L) ==
  IF L.tokens >= TokenUnit THEN 0
  ELSE LET deficit == TokenUnit - L.tokens
       IN  Max(1, (deficit + requestsPerSecond - 1) \div requestsPerSecond)

\* A faulty loop that takes the newest queued call instead of the oldest (C11).
RECURSIVE startNewestQueued(_)
startNewestQueued(L) ==
  IF L.active < maxConcurrency /\ L.tokens >= TokenUnit /\ L.queue # << >>
  THEN startNewestQueued(
         [[L EXCEPT !.active = L.active + 1,
                    !.tokens = L.tokens - TokenUnit,
                    !.starts = Append(L.starts,
                                 [call |-> L.queue[Len(L.queue)],
                                  tokensBefore |-> L.tokens, activeBefore |-> L.active,
                                  tokensAfter |-> L.tokens - TokenUnit,
                                  activeAfter |-> L.active + 1,
                                  fromQueue |-> TRUE,
                                  waiting |-> SubSeq(L.queue, 1, Len(L.queue) - 1)])]
            EXCEPT !.queue = SubSeq(L.queue, 1, Len(L.queue) - 1)])
  ELSE L

\* processQueue's while loop
RECURSIVE startQueued(_)
startQueued(L) ==
  IF canRunImmediately(L) /\ L.queue # << >>
  THEN startQueued([runTask(L, Head(L.queue)) EXCEPT !.queue = Tail(L.queue)])
  ELSE L

\* if (this.timer) { clearTimeout(this.timer); this.timer = undefined }
clearTimer(L) ==
  IF L.timer # None THEN [L EXCEPT !.timer = None, !.pending = L.pending - 1] ELSE L

RECURSIVE processQueue(_), ensureTimer(_)
processQueue(L) == ensureTimer(startQueued(refillTokens(L)))
ensureTimer(L) ==
  IF L.queue = << >> THEN clearTimer(L)
  ELSE IF canRunImmediately(L) THEN processQueue(clearTimer(L))
  ELSE IF L.tokens >= TokenUnit \/ L.timer # None THEN L
  ELSE [L EXCEPT !.timer = Some(timeUntilNextToken(L)), !.pending = L.pending + 1]

\* schedule(factory): run at once, or queue and arm the timer.
schedule(L, c) ==
  LET R == refillTokens(L)
  IN  IF canRunImmediately(R) THEN runTask(R, c)
      ELSE ensureTimer([R EXCEPT !.queue = Append(R.queue, c)])

\* A faulty completion callback that frees the slot and leaves the queue alone (C35).
finalizeWithoutProcessing(L) == [L EXCEPT !.active = Max(0, L.active - 1)]

\* finalize: the completion callback of a started task
finalize(L) == processQueue([L EXCEPT !.active = Max(0, L.active - 1)])

\* The limiter's fields and the calls' states after a handler ran.
limiterBecomes(L) ==
  /\ tokens' = L.tokens
  /\ active' = L.active
  /\ queue' = L.queue
  /\ timer' = L.timer
  /\ pendingTimers' = L.pending
  /\ sinceRefill' = L.sinceRefill
  /\ lastStarts' = L.starts
  /\ admitted' = Min(admitted + Len(L.starts), MaxAdmitted)

startedBy(L) == { L.starts[i].call : i \in 1..Len(L.starts) }

LimiterInit ==
  /\ \E rate \in 0..MaxRate : requestsPerSecond = Max(1, rate)
  /\ \E concurrency \in 0..MaxConcurrency : maxConcurrency = Max(1, concurrency)
  /\ tokens = capacity
  /\ active = 0
  /\ queue = << >>
  /\ timer = None
  /\ pendingTimers = 0
  /\ sinceRefill = 0
  /\ task = [c \in Calls |-> "idle"]
  /\ lastStarts = << >>
  /\ settling = None
  /\ admitted = 0

\* A run (this one or an overlapping one) hands a call to the limiter.
Schedule(c) ==
  /\ task[c] = "idle"
  /\ LET L == schedule(limiterState, c)
     IN  /\ limiterBecomes(L)
         /\ task' = [d \in Calls |->
                       IF d \in startedBy(L) THEN "running"
                       ELSE IF d = c THEN "queued" ELSE task[d]]
  /\ UNCHANGED << requestsPerSecond, maxConcurrency, settling >>
  /\ UNCHANGED << runVars, retryVars >>

\* A faulty settlement that resolves the promise whatever the outcome (C26).
settleResolved(outcome) == "fulfilled"

\* task.resolve(value) on success, task.reject(error) on failure.
settle(outcome) == IF outcome = "value" THEN "fulfilled" ELSE "rejected"

\* The operation of a started call ends, with a value or an error, and the
\* promise schedule returned settles.  finalize is a later microtask: until it
\* has run, only code awaiting the promise runs (it may schedule more calls).
Settle(c) ==
  /\ task[c] = "running"
  /\ settling = None
  /\ \E outcome \in {"value", "error"} :
       settling' = Some([call |-> c, outcome |-> outcome, promise |-> settle(outcome)])
  /\ task' = [task EXCEPT ![c] = "settled"]
  /\ lastStarts' = << >>
  /\ UNCHANGED << requestsPerSecond, maxConcurrency, tokens, active, queue, timer,
                  pendingTimers, sinceRefill, admitted >>
  /\ UNCHANGED << runVars, retryVars >>

\* finalize, run by the promise's finally: the slot is released and the queue
\* is processed.
Complete(c) ==
  /\ task[c] = "settled"
  /\ LET L == finalize(limiterState)
     IN  /\ limiterBecomes(L)
         /\ task' = [d \in Calls |->
                       IF d \in startedBy(L) THEN "running"
                       ELSE IF d = c THEN "idle" ELSE task[d]]
  /\ settling' = None
  /\ UNCHANGED << requestsPerSecond, maxConcurrency >>
  /\ UNCHANGED << runVars, retryVars >>

\* The refill timer's callback.
TimerFires ==
  /\ timer = Some(0)
  /\ settling = None
  /\ LET L == processQueue([limiterState EXCEPT !.timer = None, !.pending = @ - 1])
     IN  /\ limiterBecomes(L)
         /\ task' = [d \in Calls |-> IF d \in startedBy(L) THEN "running" ELSE task[d]]
  /\ UNCHANGED << requestsPerSecond, maxConcurrency, settling >>
  /\ UNCHANGED << runVars, retryVars >>

\* The clock advances by one tick.  Beyond TicksPerSecond ticks a refill
\* fills the bucket whatever the elapsed time, so sinceRefill saturates there.
Tick ==
  /\ settling = None
  /\ sinceRefill' = Min(sinceRefill + 1, TicksPerSecond)
  /\ timer' = (IF timer = None THEN None ELSE Some(Max(0, Get(timer) - 1)))
  /\ UNCHANGED << requestsPerSecond, maxConcurrency, tokens, active, queue, task, lastStarts,
                  settling, admitted, pendingTimers >>
  /\ UNCHANGED << runVars, retryVars >>

(***************************************************************************)
(* callRpcWithRetry.  An error is a record of what the code reads from it; *)
(* a message and a textual header value are sequences of characters.       *)
(***************************************************************************)
BASE_RETRY_DELAY_MS == 500
MAX_RETRY_DELAY_MS == 10000

\* String.prototype.includes
includes(text, needle) ==
  \E i \in 1..(Len(text) - Len(needle) + 1) : SubSeq(text, i, i + Len(needle) - 1) = needle
\* String.prototype.toLowerCase on the letters the messages use
lowerChar(c) ==
  CASE c = "R" -> "r"
    [] c = "L" -> "l"
    [] c = "A" -> "a"
    [] OTHER -> c
lowerText(text) == [i \in 1..Len(text) |-> lowerChar(text[i])]

\* Number(text): a decimal literal with an optional sign and fraction, times
\* 1000 (header values carry at most three fractional digits); None is NaN.
numberTimes1000(text) ==
  LET negative == text # << >> /\ text[1] = "-"
      body == IF negative THEN Tail(text) ELSE text
      dots == { i \in 1..Len(body) : body[i] = "." }
      dot == IF dots = {} THEN Len(body) + 1 ELSE CHOOSE i \in dots : \A j \in dots : i <= j
      whole == SubSeq(body, 1, dot - 1)
      fraction == SubSeq(body, dot + 1, Len(body))
      wellFormed == /\ Cardinality(dots) <= 1
                    /\ Len(whole) + Len(fraction) > 0
                    /\ Len(fraction) <= 3
                    /\ \A i \in 1..Len(whole) : IsDigit(whole[i], 10)
                    /\ \A i \in 1..Len(fraction) : IsDigit(fraction[i], 10)
      padded == fraction \o [i \in 1..(3 - Len(fraction)) |-> "0"]
      magnitude == DigitsValue(whole, 10) * 1000 + DigitsValue(padded, 10)
  IN  IF ~wellFormed THEN None
      ELSE Some(IF negative THEN 0 - magnitude ELSE magnitude)

\* A header value is absent (None) or one of:
\*   [kind |-> "number", seconds |-> n]     a finite number
\*   [kind |-> "nan"]                       a number that is not finite
\*   [kind |-> "string", text |-> chars]    a string that is not a date
\*   [kind |-> "date", time |-> t]          an HTTP-date string, t in ms on the call's clock
\*   [kind |-> "array", first |-> value]    an array of header values
parseRetryAfterHeader(value, now) ==
  IF value = None THEN None
  ELSE LET v == Get(value)
           stringValue == IF v.kind = "array" THEN v.first ELSE v
           seconds == IF stringValue.kind = "string" THEN numberTimes1000(stringValue.text)
                      ELSE IF stringValue.kind = "number" THEN Some(stringValue.seconds * 1000)
                      ELSE None
       IN  IF v.kind = "number" THEN Some(Max(0, v.seconds) * 1000)
           ELSE IF stringValue.kind = "string" /\ stringValue.text = << >> THEN None
           ELSE IF seconds # None THEN Some(Max(0, Get(seconds)))
           ELSE IF stringValue.kind = "date"
                THEN Some(IF stringValue.time - now > 0 THEN stringValue.time - now ELSE 0)
           ELSE None

RetryError(object, responseStatus, status, code, message, lowerHeader, upperHeader) ==
  [object |-> object, responseStatus |-> responseStatus, status |-> status, code |-> code,
   message |-> message, lowerHeader |-> lowerHeader, upperHeader |-> upperHeader]

\* headers['retry-after'] ?? headers['Retry-After']
retryAfterHeader(error) ==
  IF ~error.object THEN None
  ELSE IF error.lowerHeader # None THEN error.lowerHeader ELSE error.upperHeader

\* A faulty delay that caps the server's hint at MAX_RETRY_DELAY_MS (C37).
getRetryDelayMsCappingHint(error, n, now) ==
  LET retryAfterMs == parseRetryAfterHeader(retryAfterHeader(error), now)
      exponential == BASE_RETRY_DELAY_MS * 2 ^ (n - 1)
  IN  Min(IF retryAfterMs # None THEN Get(retryAfterMs) ELSE exponential, MAX_RETRY_DELAY_MS)

getRetryDelayMs(error, n, now) ==
  LET retryAfterMs == parseRetryAfterHeader(retryAfterHeader(error), now)
      exponential == BASE_RETRY_DELAY_MS * 2 ^ (n - 1)
  IN  IF retryAfterMs # None THEN Get(retryAfterMs)
      ELSE Min(exponential, MAX_RETRY_DELAY_MS)

\* An error code is a number or a string: [kind |-> "number", value |-> n] or
\* [kind |-> "string", text |-> chars].
codeIs429(code) ==
  IF code.kind = "number" THEN code.value = 429
  ELSE numberTimes1000(code.text) = Some(429000)

\* A faulty recognition that takes every error object for throttling (C14).
isAnyErrorObject(error) == error.object

isRateLimitError(error) ==
  IF ~error.object THEN FALSE
  ELSE LET status == IF error.responseStatus # None THEN error.responseStatus ELSE error.status
       IN  \/ status = Some(429)
           \/ (error.code # None /\ codeIs429(Get(error.code)))
           \/ includes(error.message, <<"4", "2", "9">>)
           \/ includes(lowerText(error.message),
                       <<"r", "a", "t", "e", " ", "l", "i", "m", "i", "t">>)

LogEntry(level, about) == [level |-> level, about |-> about]

\* A faulty catch block that retries without the warning entry (C12).
afterFailureUnlogged(error, n, elapsed, options) ==
  LET delay == getRetryDelayMs(error, n, elapsed)
  IN  IF ~isRateLimitError(error)
      THEN [rethrows |-> TRUE, entries |-> << >>, delay |-> 0]
      ELSE IF elapsed >= options.maxDurationMs
      THEN [rethrows |-> TRUE, entries |-> << LogEntry("error", "budget") >>, delay |-> 0]
      ELSE IF options.maxAttempts # None /\ n + 1 > Get(options.maxAttempts)
      THEN [rethrows |-> TRUE, entries |-> << LogEntry("error", "attempts") >>, delay |-> 0]
      ELSE IF elapsed + delay > options.maxDurationMs
      THEN [rethrows |-> TRUE, entries |-> << LogEntry("error", "projected") >>, delay |-> 0]
      ELSE [rethrows |-> FALSE, entries |-> << >>, delay |-> delay]

\* A faulty catch block that gives up without an error entry (C13).
afterFailureWithoutErrorEntry(error, n, elapsed, options) ==
  LET delay == getRetryDelayMs(error, n, elapsed)
  IN  IF ~isRateLimitError(error)
      THEN [rethrows |-> TRUE, entries |-> << >>, delay |-> 0]
      ELSE IF \/ elapsed >= options.maxDurationMs
              \/ (options.maxAttempts # None /\ n + 1 > Get(options.maxAttempts))
              \/ elapsed + delay > options.maxDurationMs
      THEN [rethrows |-> TRUE, entries |-> << >>, delay |-> 0]
      ELSE [rethrows |-> FALSE, entries |-> << LogEntry("warn", "retry") >>, delay |-> delay]

\* A faulty catch block that sleeps without projecting the elapsed time (C15).
afterFailureWithoutProjection(error, n, elapsed, options) ==
  LET delay == getRetryDelayMs(error, n, elapsed)
  IN  IF ~isRateLimitError(error)
      THEN [rethrows |-> TRUE, entries |-> << >>, delay |-> 0]
      ELSE IF elapsed >= options.maxDurationMs
      THEN [rethrows |-> TRUE, entries |-> << LogEntry("error", "budget") >>, delay |-> 0]
      ELSE IF options.maxAttempts # None /\ n + 1 > Get(options.maxAttempts)
      THEN [rethrows |-> TRUE, entries |-> << LogEntry("error", "attempts") >>, delay |-> 0]
      ELSE [rethrows |-> FALSE, entries |-> << LogEntry("warn", "retry") >>, delay |-> delay]

\* The catch block of callRpcWithRetry: whether it rethrows, what it logs and
\* the delay it sleeps for.
afterFailure(error, n, elapsed, options) ==
  LET delay == getRetryDelayMs(error, n, elapsed)
  IN  IF ~isRateLimitError(error)
      THEN [rethrows |-> TRUE, entries |-> << >>, delay |-> 0]
      ELSE IF elapsed >= options.maxDurationMs
      THEN [rethrows |-> TRUE, entries |-> << LogEntry("error", "budget") >>, delay |-> 0]
      ELSE IF options.maxAttempts # None /\ n + 1 > Get(options.maxAttempts)
      THEN [rethrows |-> TRUE, entries |-> << LogEntry("error", "attempts") >>, delay |-> 0]
      ELSE IF elapsed + delay > options.maxDurationMs
      THEN [rethrows |-> TRUE, entries |-> << LogEntry("error", "projected") >>, delay |-> 0]
      ELSE [rethrows |-> FALSE, entries |-> << LogEntry("warn", "retry") >>, delay |-> delay]

\* The errors a node call fails with, the values it produces, the time one
\* invocation takes and the options callRpcWithRetry is called with.
Text429 == <<"4", "2", "9">>
TextRateLimit == <<"R", "a", "t", "e", " ", "L", "i", "m", "i", "t">>
TextBoom == <<"b", "o", "o", "m">>
StringHeader(text) == Some([kind |-> "string", text |-> text])
ThrottlingErrors ==
  { RetryError(TRUE, Some(429), None, None, TextBoom, None, None),
    RetryError(TRUE, Some(429), None, None, Text429, StringHeader(<<"0", ".", "5">>), None),
    RetryError(TRUE, None, Some(429), None, << >>, None, StringHeader(<<"0">>)),
    RetryError(TRUE, None, None, Some([kind |-> "string", text |-> Text429]), << >>,
               Some([kind |-> "number", seconds |-> 2]), None),
    RetryError(TRUE, Some(503), None, None, TextRateLimit,
               Some([kind |-> "date", time |-> 1500]), None),
    RetryError(TRUE, None, None, Some([kind |-> "number", value |-> 429]), << >>,
               StringHeader(<<"s", "o", "o", "n">>), None) }
OtherErrors ==
  { RetryError(TRUE, Some(500), None, None, TextBoom, StringHeader(<<"1">>), None),
    RetryError(TRUE, None, None, Some([kind |-> "number", value |-> 0 - 32000]), << >>,
               None, None),
    RetryError(FALSE, None, None, None, Text429, None, None) }
FactoryValues == {"value"}
AttemptDurations == {0, BASE_RETRY_DELAY_MS}
RetryOptionSets ==
  { [maxAttempts |-> a, maxDurationMs |-> d] :
      a \in {None, Some(0), Some(1), Some(3)},
      d \in {2 * BASE_RETRY_DELAY_MS, 4 * BASE_RETRY_DELAY_MS} }

\* for (let attempt = 1; attempt <= maxAttempts; ...): the loop is entered
loopEntered(options, n) == options.maxAttempts = None \/ n <= Get(options.maxAttempts)
ExhaustedError == RetryError(TRUE, None, None, None, << >>, None, None)

RetryStart(options) ==
  /\ retryOptions = options
  /\ attempt = 1
  /\ elapsedMs = 0
  /\ retryPc = IF loopEntered(options, 1) THEN "calling" ELSE "thrown"
  /\ retryLog = << >>
  /\ invocations = 0
  /\ throttlings = 0
  /\ delayMs = 0
  /\ sleptMs = 0
  /\ lastError = None
  /\ thrownError = IF loopEntered(options, 1) THEN None ELSE Some(ExhaustedError)
  /\ returnedValue = None
  /\ factoryValue = None
  /\ zeroTimeCycle = FALSE

RetryInit == \E options \in RetryOptionSets : RetryStart(options)

\* One invocation of factory() that resolves: callRpcWithRetry returns its value.
AttemptSucceeds ==
  /\ retryPc = "calling"
  /\ invocations < MaxTries
  /\ \E value \in FactoryValues, duration \in AttemptDurations :
       /\ elapsedMs' = elapsedMs + duration
       /\ factoryValue' = Some(value)
       /\ returnedValue' = Some(value)
  /\ invocations' = invocations + 1
  /\ retryPc' = "returned"
  /\ lastError' = None
  /\ UNCHANGED << retryOptions, attempt, retryLog, throttlings, delayMs, sleptMs,
                  thrownError, zeroTimeCycle >>
  /\ UNCHANGED << runVars, limiterVars >>

\* One invocation of factory() that rejects: the catch block runs.
AttemptFails ==
  /\ retryPc = "calling"
  /\ invocations < MaxTries
  /\ \E error \in ThrottlingErrors \cup OtherErrors, duration \in AttemptDurations :
       LET elapsed == elapsedMs + duration
           after == afterFailure(error, attempt, elapsed, retryOptions)
       IN  /\ elapsedMs' = elapsed
           /\ lastError' = Some(error)
           /\ throttlings' = IF isRateLimitError(error) THEN throttlings + 1 ELSE throttlings
           /\ retryLog' = retryLog \o after.entries
           /\ delayMs' = after.delay
           /\ retryPc' = IF after.rethrows THEN "thrown" ELSE "sleeping"
           /\ thrownError' = IF after.rethrows THEN Some(error) ELSE None
           /\ zeroTimeCycle' = (zeroTimeCycle \/ (~after.rethrows /\ duration + after.delay = 0))
  /\ invocations' = invocations + 1
  /\ UNCHANGED << retryOptions, attempt, sleptMs, returnedValue, factoryValue >>
  /\ UNCHANGED << runVars, limiterVars >>

\* sleep(delayMs) is over: the loop's increment and test.
Wake ==
  /\ retryPc = "sleeping"
  /\ elapsedMs' = elapsedMs + delayMs
  /\ sleptMs' = sleptMs + delayMs
  /\ delayMs' = 0
  /\ attempt' = attempt + 1
  /\ retryPc' = IF loopEntered(retryOptions, attempt + 1) THEN "calling" ELSE "thrown"
  /\ thrownError' = IF loopEntered(retryOptions, attempt + 1) THEN None
                    ELSE Some(ExhaustedError)
  /\ UNCHANGED << retryOptions, retryLog, invocations, throttlings, lastError,
                  returnedValue, factoryValue, zeroTimeCycle >>
  /\ UNCHANGED << runVars, limiterVars >>

(***************************************************************************)
(* Specifications.                                                         *)
(***************************************************************************)
vars == << runVars, limiterVars, retryVars >>

\* No callRpcWithRetry call is followed.
RetryIdle == RetryStart([maxAttempts |-> None, maxDurationMs |-> 4 * BASE_RETRY_DELAY_MS])

\* One discovery run; the limiter is left in its initial state.
LimiterIdle ==
  /\ requestsPerSecond = MaxRate
  /\ maxConcurrency = MaxConcurrency
  /\ tokens = capacity
  /\ active = 0
  /\ queue = << >>
  /\ timer = None
  /\ pendingTimers = 0
  /\ sinceRefill = 0
  /\ task = [c \in Calls |-> "idle"]
  /\ lastStarts = << >>
  /\ settling = None
  /\ admitted = 0

Init == RunInit /\ LimiterIdle /\ RetryIdle

Next ==
  \/ FetchLatest
  \/ FetchEarliest
  \/ BoundaryStart("from")
  \/ BoundaryLoop("from")
  \/ BoundaryStart("to")
  \/ BoundaryLoop("to")
  \/ CheckWindow
  \/ FetchEvents
  \/ ProcessEvent
  \/ EndEventPage
  \/ FallbackBlock
  \/ FallbackTx
  \/ Finish

Spec == Init /\ [][Next]_vars

\* A run followed by a second run of the same query, for the same page or the
\* next one.
RepeatNext ==
  \/ FetchLatest
  \/ FetchEarliest
  \/ BoundaryStart("from")
  \/ BoundaryLoop("from")
  \/ BoundaryStart("to")
  \/ BoundaryLoop("to")
  \/ CheckWindow
  \/ FetchEvents
  \/ ProcessEvent
  \/ EndEventPage
  \/ FallbackBlock
  \/ FallbackTx
  \/ Finish
  \/ Restart(p.page)
  \/ Restart(p.page + 1)

RepeatSpec == Init /\ [][RepeatNext]_vars

\* The limiter under calls from overlapping runs; no run of its own is followed.
RunIdle ==
  /\ p = Params(1, 1, [filters |-> NoFilters, from |-> None, to |-> None])
  /\ eventLog = << << >> >>
  /\ maxTraceLookups = MaxBudget
  /\ blockTimestamps = TestChain
  /\ RunStart

LimiterStart == LimiterInit /\ RunIdle /\ RetryIdle

LimiterNext ==
  \/ \E c \in Calls : Schedule(c)
  \/ \E c \in Calls : Settle(c)
  \/ \E c \in Calls : Complete(c)
  \/ TimerFires
  \/ Tick

LimiterSpec == LimiterStart /\ [][LimiterNext]_vars

\* Every started call settles, timers fire and time advances.
LimiterFair ==
  /\ LimiterSpec
  /\ \A c \in Calls : WF_vars(Settle(c))
  /\ \A c \in Calls : WF_vars(Complete(c))
  /\ WF_vars(TimerFires)
  /\ WF_vars(Tick)

\* The boundary searches of a run, on every chain whose timestamps do not
\* decrease with the height and for targets before, on, between and after them.
BoundaryTargets == {None} \cup { Some(500 * k) : k \in 1..7 }
BoundaryInit ==
  /\ blockTimestamps \in NonDecreasingChains
  /\ p \in { Params(1, 1, [filters |-> NoFilters, from |-> f, to |-> t]) :
               f \in BoundaryTargets, t \in BoundaryTargets }
  /\ eventLog = << << >> >>
  /\ maxTraceLookups = MaxBudget
  /\ RunStart
  /\ LimiterIdle
  /\ RetryIdle

BoundaryNext ==
  \/ FetchLatest
  \/ FetchEarliest
  \/ BoundaryStart("from")
  \/ BoundaryLoop("from")
  \/ BoundaryStart("to")
  \/ BoundaryLoop("to")
  \/ CheckWindow

BoundarySpec == BoundaryInit /\ [][BoundaryNext]_vars

\* One callRpcWithRetry call; no run and no limiter step is followed.
RetryBegin == RetryInit /\ RunIdle /\ LimiterIdle

RetryNext ==
  \/ AttemptSucceeds
  \/ AttemptFails
  \/ Wake

RetrySpec == RetryBegin /\ [][RetryNext]_vars

\* Every invocation settles and every sleep ends.
RetryFair ==
  /\ RetrySpec
  /\ WF_vars(AttemptSucceeds \/ AttemptFails)
  /\ WF_vars(Wake)

\* getRetryDelayMs on its own: the catch block of callRpcWithRetry holds the
\* error of failed attempt number `attempt` at time elapsedMs and plans the
\* delay.  The errors carry every form of retry-after value, hints beyond
\* MAX_RETRY_DELAY_MS and negative ones included.
NumberHeader(seconds) == Some([kind |-> "number", seconds |-> seconds])
HeaderValues ==
  { None, NumberHeader(2), NumberHeader(30), NumberHeader(0 - 3),
    Some([kind |-> "nan"]),
    StringHeader(<<"0", ".", "5">>), StringHeader(<<"1", "2">>), StringHeader(<<"-", "1">>),
    StringHeader(<<"s", "o", "o", "n">>), StringHeader(<< >>),
    Some([kind |-> "date", time |-> 1500]),
    Some([kind |-> "array", first |-> [kind |-> "string", text |-> <<"3">>]]),
    Some([kind |-> "array", first |-> [kind |-> "date", time |-> 20000]]) }
DelayErrors ==
  { RetryError(TRUE, Some(429), None, None, Text429, lower, upper) :
      lower \in HeaderValues, upper \in {None, NumberHeader(1)} }
    \cup { RetryError(FALSE, None, None, None, Text429, None, None) }
DelayClocks == {0, 2 * BASE_RETRY_DELAY_MS, 4 * BASE_RETRY_DELAY_MS}

DelayInit ==
  /\ RunIdle /\ LimiterIdle
  /\ retryOptions = [maxAttempts |-> None, maxDurationMs |-> 4 * BASE_RETRY_DELAY_MS]
  /\ attempt \in 1..MaxTries
  /\ elapsedMs \in DelayClocks
  /\ \E error \in DelayErrors : lastError = Some(error)
  /\ retryPc = "caught"
  /\ invocations = attempt /\ throttlings = attempt
  /\ retryLog = << >> /\ delayMs = 0 /\ sleptMs = 0
  /\ thrownError = None /\ returnedValue = None /\ factoryValue = None
  /\ zeroTimeCycle = FALSE

\* const delayMs = getRetryDelayMs(error, attempt)
PlanDelay ==
  /\ retryPc = "caught"
  /\ delayMs' = getRetryDelayMs(Get(lastError), attempt, elapsedMs)
  /\ retryPc' = "planned"
  /\ UNCHANGED << retryOptions, attempt, elapsedMs, retryLog, invocations, throttlings,
                  sleptMs, lastError, thrownError, returnedValue, factoryValue, zeroTimeCycle >>
  /\ UNCHANGED << runVars, limiterVars >>

DelayNext == PlanDelay

DelaySpec == DelayInit /\ [][DelayNext]_vars

\* callWithLimiter: one node call of a run, handed to the limiter as
\* schedule(() => callRpcWithRetry(factory, {method, log})).  The operation the
\* limiter starts is the whole retry loop; neither maxAttempts nor
\* maxDurationMs is passed, so the loop runs under RetryIdle's defaults.
GatedCall == 1

callWithLimiter ==
  /\ retryPc = "calling" /\ invocations = 0
  /\ Schedule(GatedCall)

\* The retry loop runs once the limiter has started the operation.
GatedAttemptSucceeds == task[GatedCall] = "running" /\ AttemptSucceeds
GatedAttemptFails == task[GatedCall] = "running" /\ AttemptFails
GatedWake == task[GatedCall] = "running" /\ Wake

\* The operation ends when callRpcWithRetry returns or throws.
GatedSettle ==
  /\ retryPc \in {"returned", "thrown"}
  /\ Settle(GatedCall)
  /\ Get(settling').outcome = (IF retryPc = "returned" THEN "value" ELSE "error")

GateInit == LimiterInit /\ RunIdle /\ RetryIdle

GateNext ==
  \/ callWithLimiter
  \/ GatedAttemptSucceeds
  \/ GatedAttemptFails
  \/ GatedWake
  \/ GatedSettle
  \/ Complete(GatedCall)
  \/ TimerFires
  \/ Tick

GateSpec == GateInit /\ [][GateNext]_vars

\* Timers fire and time advances.
GateFair ==
  /\ GateSpec
  /\ WF_vars(TimerFires)
  /\ WF_vars(Tick)

(***************************************************************************)
(* Claims about one discovery run (specification Spec).                    *)
(***************************************************************************)
returned == Get(result)
shortCircuited == returned.hasMore = None
hashesDistinct(rows) ==
  \A i, j \in 1..Len(rows) : i # j => rows[i].txHash # rows[j].txHash
\* The scanner that built a row: the fallback copies the matched invocation's
\* address, the event scanner the queried one; "0x2" and "0x3" are invoked
\* under the lower-case spelling.
builtByFallback(row) == row.to # p.address
eventHashes ==
  UNION { { eventLog[i][j] : j \in 1..Len(eventLog[i]) } : i \in 1..Len(eventLog) } \ {""}

\* C1: in every reachable state the accumulated rows hold at most one row per
\* transaction hash, whichever scanner added them, and so do the rows of any
\* returned page.
C1_HashesDistinct ==
  /\ hashesDistinct(allRows)
  /\ result # None => hashesDistinct(returned.rows)

\* C1's case: a run over an event log naming a transaction twice returned rows
\* of both scanners.
C1_Witness ==
  /\ pc = "done" /\ Len(returned.rows) >= 2
  /\ \E i \in 1..Len(eventLog) : \E j, k \in 1..Len(eventLog[i]) :
       j # k /\ eventLog[i][j] = eventLog[i][k]
  /\ \E i, j \in 1..Len(returned.rows) :
       builtByFallback(returned.rows[i]) /\ ~builtByFallback(returned.rows[j])

\* What a requested filter set demands of a row, filter by filter.
satisfiesRequest(row) ==
  /\ (p.filters.type \notin {None, Some("ALL")} => row.type = Get(p.filters.type))
  /\ (p.filters.method # None =>
        (IF row.entrypoint = None THEN Placeholder ELSE Get(row.entrypoint))
          = Get(p.filters.method))
  /\ (p.filters.status \notin {None, Some("ALL")} => row.status = Get(p.filters.status))
  /\ (p.filters.minFee # None => row.fee >= Get(p.filters.minFee))
  /\ (p.filters.maxFee # None => row.fee <= Get(p.filters.maxFee))
  /\ (p.from # None => Get(p.from) <= row.timestamp)
  /\ (p.to # None => row.timestamp <= Get(p.to))

\* C2: every returned row satisfies every requested filter and time bound.
C2_RowsSatisfyFilters ==
  result # None => \A i \in 1..Len(returned.rows) : satisfiesRequest(returned.rows[i])

\* C2's case: rows were returned under a filter that an accumulated row fails.
C2_Witness ==
  /\ pc = "done" /\ returned.rows # << >>
  /\ p.filters # NoFilters
  /\ \E i \in 1..Len(allRows) : ~satisfiesRequest(allRows[i])

\* C3: the returned rows are in non-increasing timestamp order.
C3_SortedDescending ==
  result # None =>
    \A i \in 1..(Len(returned.rows) - 1) :
      returned.rows[i].timestamp >= returned.rows[i + 1].timestamp

\* C3's case: two rows were returned that were accumulated in ascending order.
C3_Witness ==
  /\ pc = "done"
  /\ \E i, j \in 1..Len(allRows) :
       /\ i < j /\ allRows[i].timestamp < allRows[j].timestamp
       /\ \E k, l \in 1..Len(returned.rows) :
            returned.rows[k] = allRows[j] /\ returned.rows[l] = allRows[i]

\* The accumulated rows that pass the filters and time bounds.
passing == { i \in 1..Len(allRows) : satisfiesRequest(allRows[i]) }
pageStart == (p.page - 1) * p.pageSize

\* C4: a run that is not short-circuited returns the rows at positions
\* [(page-1)*pageSize, page*pageSize) of the passing accumulated rows in
\* descending-timestamp order (ties in any order), and totalEstimated is the
\* number of passing rows.
C4_PageSlice ==
  (result # None /\ ~shortCircuited) =>
    /\ returned.totalEstimated = Cardinality(passing)
    /\ Len(returned.rows) = Max(0, Min(p.pageSize, Cardinality(passing) - pageStart))
    /\ hashesDistinct(returned.rows)
    /\ \A k \in 1..Len(returned.rows) :
         /\ \E i \in passing : allRows[i] = returned.rows[k]
         /\ Cardinality({ i \in passing :
              allRows[i].timestamp > returned.rows[k].timestamp }) <= pageStart + k - 1
         /\ Cardinality({ i \in passing :
              allRows[i].timestamp >= returned.rows[k].timestamp }) >= pageStart + k

\* C4's case: a second page was returned with a row on it while an
\* accumulated row fails the filters.
C4_Witness ==
  /\ pc = "done" /\ p.page = 2 /\ returned.rows # << >>
  /\ Cardinality(passing) < Len(allRows)

\* The four reasons for hasMore, read off the run rather than its flags.
sliceEndsEarly == pageStart + p.pageSize < Cardinality(passing)
thresholdReached == Cardinality(passing) >= p.page * p.pageSize
eventCalls == { i \in 1..Len(calls) : calls[i].method = "getEvents" /\ calls[i].ok }
lastEventPage ==
  LET i == CHOOSE k \in eventCalls : \A l \in eventCalls : l <= k
  IN  IF calls[i].token = None THEN 1 ELSE Get(calls[i].token)
tokenLeft == eventCalls # {} /\ lastEventPage < Len(eventLog)
fallbackStoppedEarly == blockNumber >= blockRangeStart

\* C5: in the result of a run that is not short-circuited, hasMore holds
\* exactly when the slice ends before the end of the filtered set, or the match
\* threshold was reached, or the last event page fetched carried a token, or
\* the fallback stopped before the end of its block window.
C5_HasMoreIff ==
  (pc = "done" /\ ~shortCircuited) =>
    (returned.hasMore = Some(TRUE)
       <=> (sliceEndsEarly \/ thresholdReached \/ tokenLeft \/ fallbackStoppedEarly))

\* C5's case: hasMore is set for the one reason that the fallback stopped early.
C5_Witness ==
  /\ pc = "done" /\ ~shortCircuited
  /\ returned.hasMore = Some(TRUE)
  /\ fallbackStoppedEarly /\ ~thresholdReached /\ ~tokenLeft /\ ~sliceEndsEarly

\* Every invocation node of a tree names the queried address, ignoring case.
RECURSIVE invokesAddress(_)
invokesAddress(invocation) ==
  \/ ("contract_address" \in DOMAIN invocation
        /\ toLowerCase(invocation.contract_address) = toLowerCase(p.address))
  \/ ("calls" \in DOMAIN invocation
        /\ \E i \in 1..Len(invocation.calls) : invokesAddress(invocation.calls[i]))
optInvokes(candidate) == candidate # None /\ invokesAddress(Get(candidate))
\* The trace of a transaction holds an invocation of the queried address.
traceInvokesAddress(hash) ==
  LET t == Trace(hash)
  IN  \/ (t.invoke_tx_trace # None
            /\ (\/ optInvokes(Get(t.invoke_tx_trace).validate_invocation)
                \/ optInvokes(Get(t.invoke_tx_trace).execute_invocation)
                \/ optInvokes(Get(t.invoke_tx_trace).fee_transfer_invocation)))
      \/ (t.deploy_account_tx_trace # None
            /\ optInvokes(Get(t.deploy_account_tx_trace).constructor_invocation))
      \/ (t.l1_handler_tx_trace # None
            /\ optInvokes(Get(t.l1_handler_tx_trace).function_invocation))
      \/ (t.declare_tx_trace # None
            /\ optInvokes(Get(t.declare_tx_trace).validate_invocation))
\* The same under the one invocation root the fallback searches for each kind
\* of trace (an execute_invocation only when it carries a contract address).
searchedRootInvokesAddress(hash) ==
  LET t == Trace(hash)
  IN  \/ (t.invoke_tx_trace # None
            /\ Get(t.invoke_tx_trace).execute_invocation # None
            /\ "contract_address" \in DOMAIN Get(Get(t.invoke_tx_trace).execute_invocation)
            /\ optInvokes(Get(t.invoke_tx_trace).execute_invocation))
      \/ (t.deploy_account_tx_trace # None
            /\ optInvokes(Get(t.deploy_account_tx_trace).constructor_invocation))
      \/ (t.l1_handler_tx_trace # None
            /\ optInvokes(Get(t.l1_handler_tx_trace).function_invocation))
      \/ (t.declare_tx_trace # None
            /\ optInvokes(Get(t.declare_tx_trace).validate_invocation))

noCallFailed == failures = 0 /\ \A i \in 1..Len(calls) : calls[i].ok
inWindow(hash) == TxBlock(hash) >= blockRangeStart /\ TxBlock(hash) <= blockRangeEnd
\* The premises C6 shares with its amended form, for a transaction T.
traceOnlyCase(T) ==
  /\ pc = "done" /\ ~shortCircuited
  /\ noCallFailed
  /\ inWindow(T)
  /\ T \notin eventHashes
  /\ ~fallbackBudgetExhausted
  /\ Cardinality(passing) < p.page * p.pageSize

\* C6 as stated: if no node call fails, T lies in a block of the resolved
\* window, emitted no event for the queried address, its trace contains an
\* invocation of the queried address, the budget is not exhausted and fewer
\* than page*pageSize rows match, then the result contains a row for T whose
\* targetAddress is the queried address, and hasMore is false.
C6_AsStated ==
  \A T \in TxHashes :
    (traceOnlyCase(T) /\ traceInvokesAddress(T)) =>
      /\ \E k \in 1..Len(returned.rows) :
           returned.rows[k].txHash = T /\ returned.rows[k].to = p.address
      /\ returned.hasMore = Some(FALSE)

\* C6 amended: under the same premises, with the invocation lying under the
\* root the fallback searches for the trace's kind, a row for T is accumulated
\* whose targetAddress is the queried address up to case, hasMore is false, and
\* the row is returned when it passes the filters and time bounds and the first
\* page is requested.
C6_TraceOnlyFound ==
  \A T \in TxHashes :
    (traceOnlyCase(T) /\ searchedRootInvokesAddress(T)) =>
      /\ \E i \in 1..Len(allRows) :
           /\ allRows[i].txHash = T
           /\ toLowerCase(allRows[i].to) = toLowerCase(p.address)
           /\ (satisfiesRequest(allRows[i]) /\ p.page = 1) =>
                \E k \in 1..Len(returned.rows) : returned.rows[k] = allRows[i]
      /\ returned.hasMore = Some(FALSE)

\* C6's case: a transaction without events was found by its trace alone, under
\* a nested invocation, and returned.
C6_Witness ==
  /\ traceOnlyCase("0x2") /\ searchedRootInvokesAddress("0x2")
  /\ \E k \in 1..Len(returned.rows) :
       returned.rows[k].txHash = "0x2" /\ builtByFallback(returned.rows[k])

\* The fallback evaluates a budget check with nothing left while a block or an
\* unseen transaction is still to be examined.
budgetFoundAtZero ==
  /\ ~reachedLimit
  /\ remainingTraceLookups <= 0
  /\ \/ (pc = "block" /\ blockNumber >= blockRangeStart)
     \/ (pc = "tx" /\ txIndex <= Len(unseenTransactions))
\* A transaction a scanner examined: its trace or its transaction object was read.
examined(hash) ==
  \E i \in 1..Len(calls) :
    /\ calls[i].ok /\ calls[i].hash = hash
    /\ calls[i].method \in {"getTransactionTrace", "getTransactionByHash"}

\* C7: when the fallback finds the budget at zero with a block or an unseen
\* transaction left, it stops scanning (no further call, no further row); the
\* result then has hasMore = true, the budget warning is emitted and every
\* returned row is of an examined transaction.
C7_StopsOnSpentBudget ==
  /\ [][budgetFoundAtZero =>
          /\ pc' = "assemble" /\ fallbackBudgetExhausted'
          /\ calls' = calls /\ allRows' = allRows]_vars
  /\ []((pc = "done" /\ fallbackBudgetExhausted) =>
          /\ returned.hasMore = Some(TRUE)
          /\ warned
          /\ \A k \in 1..Len(returned.rows) : examined(returned.rows[k].txHash))

\* C7's case: budget 1, no events, the latest block's one transaction is never
\* examined: zero rows, hasMore and the warning.
C7_Witness ==
  /\ pc = "done" /\ fallbackBudgetExhausted
  /\ maxTraceLookups = 1 /\ eventHashes = {}
  /\ returned.rows = << >> /\ returned.hasMore = Some(TRUE) /\ warned
  /\ ~examined("0x3")

\* The block and trace fetches the fallback issued.
fallbackFetches ==
  { i \in 1..Len(calls) : calls[i].method \in {"getBlockWithTxs", "getTransactionTrace"} }

\* C8: each block fetch and each trace fetch of the fallback consumes one unit
\* of the budget, failed or not, so the fallback issues at most
\* maxTraceLookups of them.
C8_FetchesWithinBudget ==
  /\ Cardinality(fallbackFetches) <= maxTraceLookups
  /\ pc \in {"block", "tx", "assemble"} =>
       Cardinality(fallbackFetches) = maxTraceLookups - remainingTraceLookups

(***************************************************************************)
(* Claims about RpcRateLimiter (specifications LimiterSpec, LimiterFair).  *)
(***************************************************************************)
\* C9: in every reachable state of the limiter, under any interleaving of
\* schedule calls, completions and timer firings, 0 <= active <= maxConcurrency
\* and 0 <= tokens <= capacity; every start the last handler performed happened
\* with active < maxConcurrency and at least one token, took exactly one token
\* and raised active by one.
C9_LimiterBounds ==
  /\ 0 <= active /\ active <= maxConcurrency
  /\ 0 <= tokens /\ tokens <= capacity
  /\ \A i \in 1..Len(lastStarts) :
       /\ lastStarts[i].activeBefore < maxConcurrency
       /\ lastStarts[i].tokensBefore >= TokenUnit
       /\ lastStarts[i].tokensAfter = lastStarts[i].tokensBefore - TokenUnit
       /\ lastStarts[i].activeAfter = lastStarts[i].activeBefore + 1

\* C9's case: a completion started a queued call, the limiter is back at its
\* concurrency limit and another call still waits.
C9_Witness ==
  /\ lastStarts # << >>
  /\ lastStarts[1].waiting # << >>
  /\ active = maxConcurrency
  /\ queue # << >>
  /\ \E c \in Calls : task[c] = "queued"

\* A call waits in the queue of a limiter whose bucket can hold a token.
queuedWithToken(c) == task[c] = "queued" /\ capacity >= TokenUnit

\* C10: when the bucket holds at least one token, every queued call
\* eventually starts, given that started calls complete, due timers fire and
\* time advances.
C10_NoStarvation ==
  \A c \in Calls : queuedWithToken(c) ~> (task[c] = "running")

\* The position of a call in a sequence of calls, 0 when it is not there.
positionIn(seq, c) ==
  IF \E i \in 1..Len(seq) : seq[i] = c
  THEN CHOOSE i \in 1..Len(seq) : seq[i] = c ELSE 0
\* The position of a call's start among the starts of one handler.
startPosition(starts, c) ==
  IF \E i \in 1..Len(starts) : starts[i].call = c
  THEN CHOOSE i \in 1..Len(starts) : starts[i].call = c ELSE 0
enqueuedBefore(a, b) ==
  /\ positionIn(queue, a) > 0 /\ positionIn(queue, b) > 0
  /\ positionIn(queue, a) < positionIn(queue, b)

\* C11: queued calls start in the order of their enqueueing: a step that starts
\* a queued call b also starts, and earlier, every call enqueued before b; a new
\* call is enqueued behind the waiting ones, and calls that stay queued keep
\* their order.
C11_QueueIsFifo ==
  [][\A a, b \in Calls :
       /\ (enqueuedBefore(a, b) /\ task'[b] = "running") =>
            /\ task'[a] = "running"
            /\ startPosition(lastStarts', a) > 0
            /\ startPosition(lastStarts', a) < startPosition(lastStarts', b)
       /\ (enqueuedBefore(a, b) /\ task'[b] = "queued" /\ task'[a] = "queued") =>
            positionIn(queue', a) < positionIn(queue', b)
       /\ (positionIn(queue, a) > 0 /\ task[b] = "idle" /\ task'[b] = "queued"
             /\ task'[a] = "queued") =>
            positionIn(queue', a) < positionIn(queue', b)]_vars

\* C11's case: the oldest of several queued calls was started from the queue
\* and a call enqueued after it still waits.
C11_Witness ==
  /\ lastStarts # << >>
  /\ lastStarts[1].fromQueue
  /\ lastStarts[1].waiting # << >>
  /\ task[lastStarts[1].call] = "running"
  /\ \E c \in Calls : task[c] = "queued" /\ positionIn(queue, c) > 0

(***************************************************************************)
(* Claims about callRpcWithRetry (specifications RetrySpec, RetryFair).    *)
(***************************************************************************)
entriesAt(level) == { i \in 1..Len(retryLog) : retryLog[i].level = level }

\* C12: a call that fails with a throttling error on its first k attempts and
\* then succeeds within the time budget was invoked exactly k + 1 times, left
\* exactly k warning entries and no error entry, and its value is returned; a
\* warning is logged before each retry sleep.
C12_RetriesThenSucceeds ==
  /\ retryPc = "returned" =>
       /\ invocations = throttlings + 1
       /\ Cardinality(entriesAt("warn")) = throttlings
       /\ entriesAt("error") = {}
       /\ returnedValue # None /\ returnedValue = factoryValue
  /\ retryPc = "sleeping" =>
       /\ Len(retryLog) = throttlings
       /\ retryLog[Len(retryLog)].level = "warn"

\* C12's case: two throttled attempts, then success.
C12_Witness ==
  /\ retryPc = "returned"
  /\ throttlings = 2 /\ invocations = 3
  /\ Cardinality(entriesAt("warn")) = 2
  /\ returnedValue = Some("value")

\* The error the wrapper failed with is a throttling error of the call.
failedThrottled ==
  /\ retryPc = "thrown"
  /\ invocations >= 1
  /\ thrownError # None /\ thrownError = lastError
  /\ throttlings = invocations
\* The run is outside C13's premises: some attempt succeeded or failed with
\* another error, or an attempt and the sleep after it took no time.
notAlwaysThrottled ==
  \/ retryPc = "returned"
  \/ (retryPc = "thrown" /\ invocations >= 1 /\ throttlings < invocations)
  \/ zeroTimeCycle
lastEntry == retryLog[Len(retryLog)]
\* The last log entry is an error entry naming the budget that ran out.
reportsExhaustedBudget ==
  /\ retryLog # << >>
  /\ lastEntry.level = "error"
  /\ lastEntry.about = "budget" => elapsedMs >= retryOptions.maxDurationMs
  /\ lastEntry.about = "attempts" =>
       (retryOptions.maxAttempts # None /\ attempt + 1 > Get(retryOptions.maxAttempts))
  /\ lastEntry.about = "projected" =>
       elapsedMs + getRetryDelayMs(Get(lastError), attempt, elapsedMs)
         > retryOptions.maxDurationMs

\* C13 as stated: a call that is throttled on every attempt, with time passing
\* in every attempt-and-sleep cycle, eventually fails with the throttling
\* error, after more than one invocation and an error entry that reports the
\* exhausted budget.
C13_AsStated ==
  /\ <>(notAlwaysThrottled \/ failedThrottled)
  /\ []((failedThrottled /\ ~zeroTimeCycle) =>
          (invocations > 1 /\ reportsExhaustedBudget))

\* C13 amended: such a call eventually stops; when it was invoked at all
\* (maxAttempts >= 1) it fails with the throttling error after an error entry
\* that reports the exhausted budget, and it was invoked more than once unless
\* the first failure already exhausts a budget (maxAttempts = 1, the first
\* attempt outlasting maxDurationMs, or the first delay overshooting it);
\* with maxAttempts = 0 it fails at once with the generic exhaustion error.
C13_EventuallyGivesUp ==
  <>(notAlwaysThrottled
       \/ (failedThrottled /\ reportsExhaustedBudget
             /\ (invocations = 1 =>
                   \/ retryOptions.maxAttempts = Some(1)
                   \/ elapsedMs >= retryOptions.maxDurationMs
                   \/ elapsedMs + getRetryDelayMs(Get(lastError), 1, elapsedMs)
                        > retryOptions.maxDurationMs))
       \/ (retryPc = "thrown" /\ invocations = 0
             /\ retryOptions.maxAttempts = Some(0)
             /\ thrownError = Some(ExhaustedError)))

\* C13's case: throttled on each of several attempts, time passing, the
\* wrapper gave up on the time budget.
C13_Witness ==
  /\ failedThrottled /\ ~zeroTimeCycle
  /\ invocations > 1
  /\ reportsExhaustedBudget
  /\ lastEntry.about \in {"budget", "projected"}

\* C14: an attempt that fails with an error not recognized as throttling ends
\* the call at once with that very error: no log entry, no sleep, and no
\* further invocation afterwards.
C14_OtherErrorsPropagate ==
  /\ [][(retryPc = "calling" /\ invocations' = invocations + 1
           /\ lastError' # None /\ Get(lastError') \in OtherErrors) =>
          /\ retryPc' = "thrown"
          /\ thrownError' = lastError'
          /\ retryLog' = retryLog
          /\ sleptMs' = sleptMs /\ delayMs' = 0]_vars
  /\ [][retryPc = "thrown" =>
          (invocations' = invocations /\ retryPc' = "thrown" /\ retryLog' = retryLog)]_vars

\* C14's case: after one retried throttling failure the call fails with another
\* kind of error and the wrapper rejects with it, the log holding only the
\* earlier warning.
C14_Witness ==
  /\ retryPc = "thrown"
  /\ lastError # None /\ Get(lastError) \in OtherErrors
  /\ thrownError = lastError
  /\ throttlings = 1 /\ invocations = 2
  /\ Len(retryLog) = 1 /\ retryLog[1].level = "warn"

\* C15: no backoff sleep is started that would take the elapsed time beyond
\* maxDurationMs: a throttled attempt whose elapsed time plus planned delay
\* exceeds it fails at once without sleeping, so the time spent sleeping in one
\* call never exceeds maxDurationMs.
C15_SleepWithinBudget ==
  /\ [](/\ retryPc = "sleeping" => elapsedMs + delayMs <= retryOptions.maxDurationMs
        /\ sleptMs + delayMs <= retryOptions.maxDurationMs)
  /\ [][(retryPc = "calling" /\ lastError' # None /\ Get(lastError') \in ThrottlingErrors
           /\ elapsedMs' + getRetryDelayMs(Get(lastError'), attempt, elapsedMs')
                > retryOptions.maxDurationMs) =>
          (retryPc' = "thrown" /\ thrownError' = lastError' /\ sleptMs' = sleptMs
             /\ delayMs' = 0)]_vars

\* C15's case: after sleeping once, the next planned delay would overshoot
\* the budget and the wrapper fails instead of sleeping.
C15_Witness ==
  /\ retryPc = "thrown"
  /\ sleptMs > 0
  /\ retryLog # << >> /\ lastEntry.about = "projected"
  /\ elapsedMs < retryOptions.maxDurationMs
  /\ elapsedMs + getRetryDelayMs(Get(lastError), attempt, elapsedMs)
       > retryOptions.maxDurationMs

(***************************************************************************)
(* Claims about the boundary searches (specification BoundarySpec).        *)
(***************************************************************************)
fromResolved == pc \in {"to", "toLoop", "window", "events", "done"}
toResolved == pc \in {"window", "events", "done"}
heightsFrom(t) == { h \in 0..latestBlockNumber : BlockTimestamp(h) >= t }
heightsUpTo(t) == { h \in 0..latestBlockNumber : BlockTimestamp(h) <= t }
smallestOf(hs) == IF hs = {} THEN None ELSE Some(CHOOSE h \in hs : \A g \in hs : h <= g)
largestOf(hs) == IF hs = {} THEN None ELSE Some(CHOOSE h \in hs : \A g \in hs : h >= g)

\* C16: on a chain whose timestamps do not decrease with the height,
\* findBoundaryBlock(t, from) is the smallest height with timestamp >= t
\* (undefined when t is after the latest timestamp, 0 when t is not after the
\* earliest) and findBoundaryBlock(t, to) the largest height with timestamp
\* <= t (undefined when t is before the earliest, the latest height when t is
\* not before the latest timestamp).
C16_BoundaryBlocks ==
  /\ (fromResolved /\ p.from # None) =>
       /\ fromBlock = smallestOf(heightsFrom(Get(p.from)))
       /\ Get(p.from) > BlockTimestamp(latestBlockNumber) => fromBlock = None
       /\ Get(p.from) <= BlockTimestamp(0) => fromBlock = Some(0)
  /\ (toResolved /\ p.to # None) =>
       /\ toBlock = largestOf(heightsUpTo(Get(p.to)))
       /\ Get(p.to) < BlockTimestamp(0) => toBlock = None
       /\ Get(p.to) >= BlockTimestamp(latestBlockNumber) => toBlock = Some(latestBlockNumber)

\* C16's case: both bounds were found by binary search on a chain where two
\* blocks share the target timestamp.
C16_Witness ==
  /\ toResolved
  /\ blockTimestamps[0] < blockTimestamps[1]
  /\ blockTimestamps[1] = blockTimestamps[MaxHeight]
  /\ p.from = Some(blockTimestamps[1]) /\ p.to = Some(blockTimestamps[MaxHeight - 1])
  /\ fromBlock = Some(1)
  /\ \E i \in 1..Len(calls) : calls[i].method = "getBlockWithTxHashes" /\ calls[i].block = Some(1)

(***************************************************************************)
(* Further claims about one discovery run (specification Spec).            *)
(***************************************************************************)
\* The heights the request's time bounds resolve to on the chain.
chainFrom ==
  IF p.from = None THEN Some(0)
  ELSE smallestOf({ h \in Heights : BlockTimestamp(h) >= Get(p.from) })
chainTo ==
  IF p.to = None THEN Some(MaxHeight)
  ELSE largestOf({ h \in Heights : BlockTimestamp(h) <= Get(p.to) })
emptyWindowRequested ==
  \/ (p.from # None /\ Get(p.from) > BlockTimestamp(MaxHeight))
  \/ (p.to # None /\ Get(p.to) < BlockTimestamp(0))
  \/ (chainFrom # None /\ chainTo # None /\ Get(chainFrom) > Get(chainTo))
scanMethods ==
  {"getEvents", "getTransactionReceipt", "getTransactionByHash", "getBlockWithTxs",
   "getTransactionTrace"}

\* C17: when the resolved window is empty (from after the latest block's
\* timestamp, to before the earliest block's, or the from height above the to
\* height), the run issues no event-page, receipt, transaction,
\* block-with-transactions or trace call and returns zero rows with
\* totalEstimated = 0.
C17_EmptyWindowShortCircuits ==
  emptyWindowRequested =>
    /\ \A i \in 1..Len(calls) : calls[i].method \notin scanMethods
    /\ pc \in {"latest", "earliest", "from", "fromLoop", "to", "toLoop", "window",
               "done", "failed"}
    /\ pc = "done" => (returned.rows = << >> /\ returned.totalEstimated = 0)

\* C17's case: both bounds resolve, the from height lies above the to height,
\* and the run returned the empty result.
C17_Witness ==
  /\ pc = "done"
  /\ fromBlock # None /\ toBlock # None /\ Get(fromBlock) > Get(toBlock)
  /\ returned.rows = << >> /\ returned.totalEstimated = 0
  /\ \A i \in 1..Len(calls) : calls[i].method \notin scanMethods

\* The token the last event page fetched came back with.
returnedToken ==
  LET i == CHOOSE k \in eventCalls : \A l \in eventCalls : l <= k
  IN  EventsPage(eventLog, calls[i].token, 0, MaxHeight).continuation_token
inEventScan == pc \in {"events", "event"}

\* C18: the first event page is fetched without a token and every later page
\* with exactly the token the previous page returned; the scanner goes on to
\* another page exactly when the previous page returned a token and the count
\* of passing rows is below page*pageSize, else it leaves for the fallback;
\* once the count reaches the threshold the event scan issues no further call,
\* processes no further event and adds no row.
C18_EventPaging ==
  [][ /\ \A i \in (Len(calls) + 1)..Len(calls') :
           calls'[i].method = "getEvents" =>
             IF eventCalls = {} THEN calls'[i].token = None
             ELSE /\ returnedToken # None /\ ~thresholdReached
                  /\ calls'[i].token = returnedToken
      /\ (pc = "event" /\ pc' # "event") =>
           IF returnedToken # None /\ ~thresholdReached
           THEN pc' = "events" ELSE pc' = "block"
      /\ (thresholdReached /\ inEventScan) =>
           UNCHANGED << calls, eventIndex, allRows, seenTx >> ]_vars

\* C18's case: a second page was fetched with the first page's token, and the
\* threshold was reached on it with an event of the page left unprocessed.
C18_Witness ==
  /\ pc = "event" /\ thresholdReached
  /\ \E i \in eventCalls : calls[i].token = Some(2)
  /\ \E k \in 1..Len(events) : events[k] # "" /\ events[k] \notin seenTx

\* C19: once the count of passing rows has reached page*pageSize, in the event
\* scan or in the fallback, no further block-with-transactions or trace fetch
\* is issued, and the result of the run has hasMore = true.
C19_FallbackStopsAtThreshold ==
  /\ [][ thresholdReached =>
           \A i \in (Len(calls) + 1)..Len(calls') :
             calls'[i].method \notin {"getBlockWithTxs", "getTransactionTrace"} ]_vars
  /\ []((pc = "done" /\ ~shortCircuited /\ thresholdReached) =>
          returned.hasMore = Some(TRUE))

\* C19's case: the threshold was reached by a row the fallback built, with a
\* block of the window left unscanned, and the run returned.
C19_Witness ==
  /\ pc = "done" /\ thresholdReached /\ fallbackStoppedEarly
  /\ returned.hasMore = Some(TRUE)
  /\ \E i \in passing : builtByFallback(allRows[i])
  /\ \E hash \in TxHashes : hash \notin seenTx

eventScanCalls ==
  { i \in 1..Len(calls) : calls[i].method \in {"getEvents", "getTransactionByHash"} }

\* C20: the two scan phases of a run are not interleaved: every event-page
\* fetch and every call made for an event comes before every
\* block-with-transactions and trace fetch, and a fallback fetch is issued only
\* after the events of the last page fetched have been processed.
C20_PhasesNotInterleaved ==
  /\ \A i \in fallbackFetches : \A j \in eventScanCalls : j < i
  /\ inEventScan => fallbackFetches = {}
  /\ fallbackFetches # {} =>
       /\ pc \in {"block", "tx", "assemble", "done"}
       /\ eventIndex > Len(events)
       /\ (returnedToken = None \/ thresholdReached)

\* C20's case: two event pages were fetched and their events processed, then
\* the fallback fetched a block and a trace.
C20_Witness ==
  /\ pc = "done"
  /\ Cardinality(eventCalls) = 2
  /\ \E j \in eventScanCalls : calls[j].method = "getTransactionByHash"
  /\ \E i \in fallbackFetches : calls[i].method = "getTransactionTrace"

\* The hash a step of either scanner is about to look at, if any.
discovered ==
  IF pc = "event" /\ eventIndex <= Len(events) THEN {events[eventIndex]}
  ELSE IF pc = "block" /\ blockNumber >= blockRangeStart /\ blockNumber \in Heights
  THEN { Get(BlockTransactions(blockNumber)[k].transaction_hash) :
           k \in { k \in 1..Len(BlockTransactions(blockNumber)) :
                     BlockTransactions(blockNumber)[k].transaction_hash # None } }
  ELSE IF pc = "tx" /\ txIndex <= Len(unseenTransactions)
  THEN {Get(unseenTransactions[txIndex].transaction_hash)}
  ELSE {}
accumulated == { allRows[i].txHash : i \in 1..Len(allRows) }

\* C21: dedup is first-write-wins: the rows accumulated so far are never
\* changed or replaced, a row is added only for a hash without a row (the
\* seen-hash set holds exactly the hashes with a row), and a step in which a
\* scanner meets only hashes already accumulated leaves the rows, the
\* seen-hash set and the match count unchanged.
C21_FirstWriteWins ==
  [][ /\ Len(allRows') >= Len(allRows)
      /\ \A i \in 1..Len(allRows) : allRows'[i] = allRows[i]
      /\ seenTx = accumulated /\ seenTx \subseteq seenTx'
      /\ \A i \in (Len(allRows) + 1)..Len(allRows') : allRows'[i].txHash \notin accumulated
      /\ (discovered # {} /\ discovered \subseteq accumulated) =>
           UNCHANGED << allRows, seenTx, matchingRowCount >> ]_vars

\* C21's case: the event scanner accumulated a row, the fallback then fetched
\* the block of that transaction, and the row is still the event scanner's.
C21_Witness ==
  /\ pc = "done"
  /\ \E i \in 1..Len(allRows) :
       /\ ~builtByFallback(allRows[i])
       /\ traceInvokesAddress(allRows[i].txHash)
       /\ \E k \in 1..Len(calls) :
            /\ calls[k].method = "getBlockWithTxs" /\ calls[k].ok
            /\ calls[k].block = Some(TxBlock(allRows[i].txHash))

\* A step in which the processing of one event or transaction failed.
transactionFailed == pc \in {"event", "tx"} /\ failures' > failures

\* C22: a failure while one transaction is processed, in either scanner,
\* skips that transaction only: the run does not fail, the scanner moves to
\* the next event or transaction, and the accumulated rows are unchanged.
C22_FailureSkipsOneTransaction ==
  [][ transactionFailed =>
        /\ pc' = pc /\ result' = None
        /\ UNCHANGED << allRows, seenTx, matchingRowCount, reachedLimit >>
        /\ pc = "event" => (eventIndex' = eventIndex + 1 /\ UNCHANGED << events, continuation >>)
        /\ pc = "tx" => (txIndex' = txIndex + 1 /\ UNCHANGED << unseenTransactions, blockNumber >>)
    ]_vars

\* C22's case: a transaction lookup failed with a row already accumulated, and
\* the run returned its result with that row.
C22_Witness ==
  /\ pc = "done" /\ returned.rows # << >>
  /\ \E k \in 1..Len(calls) :
       /\ ~calls[k].ok
       /\ calls[k].method \in {"getTransactionReceipt", "getTransactionByHash",
                               "getTransactionTrace"}
       /\ \E i \in 1..Len(allRows) :
            \E j \in 1..(k - 1) : calls[j].hash = allRows[i].txHash /\ calls[j].ok

\* C23: whenever a node call of the run has thrown the throttling error (its
\* retry budget is spent), the run has failed with no result, whichever call
\* it was.
C23_ThrottlingFailsRun ==
  thrown = "throttled" => (pc = "failed" /\ result = None)

\* A step in which a call the run requires threw a non-throttling error.
requiredCallFailed ==
  /\ pc \in {"latest", "earliest", "from", "fromLoop", "to", "toLoop", "events"}
  /\ Len(calls') > Len(calls) /\ ~calls'[Len(calls')].ok
  /\ thrown' = "other"

\* C24: a non-throttling failure of the latest-block lookup, of a boundary
\* timestamp lookup or of an event-page fetch fails the run, and a failed run
\* returns nothing, whatever rows it had accumulated.
C24_RequiredFailureIsFatal ==
  /\ [][ requiredCallFailed => (pc' = "failed" /\ result' = None) ]_vars
  /\ [](pc = "failed" => result = None)
  /\ [][ pc = "failed" => UNCHANGED << pc, result >> ]_vars

\* C24's case: the fetch of the second event page failed after a row of the
\* first page had been accumulated.
C24_Witness ==
  /\ pc = "failed" /\ thrown = "other" /\ result = None
  /\ allRows # << >>
  /\ calls[Len(calls)].method = "getEvents" /\ calls[Len(calls)].token # None

\* The nodes of an invocation tree in depth-first pre-order.
RECURSIVE preOrder(_)
RECURSIVE preOrderOfAll(_)
preOrder(invocation) ==
  << invocation >> \o
    (IF "calls" \in DOMAIN invocation THEN preOrderOfAll(invocation.calls) ELSE << >>)
preOrderOfAll(nodes) ==
  IF nodes = << >> THEN << >>
  ELSE preOrder(Head(nodes)) \o preOrderOfAll(Tail(nodes))

\* The top-level invocation of a trace for its kind.
topLevelInvocation(hash) ==
  LET t == Trace(hash)
  IN  IF t.invoke_tx_trace # None THEN Get(t.invoke_tx_trace).execute_invocation
      ELSE IF t.deploy_account_tx_trace # None
      THEN Get(t.deploy_account_tx_trace).constructor_invocation
      ELSE IF t.l1_handler_tx_trace # None
      THEN Get(t.l1_handler_tx_trace).function_invocation
      ELSE IF t.declare_tx_trace # None THEN Get(t.declare_tx_trace).validate_invocation
      ELSE None
treeOf(hash) ==
  IF topLevelInvocation(hash) = None THEN << >> ELSE preOrder(Get(topLevelInvocation(hash)))
matchingNodes(hash) ==
  { i \in 1..Len(treeOf(hash)) :
      /\ "contract_address" \in DOMAIN treeOf(hash)[i]
      /\ toLowerCase(treeOf(hash)[i].contract_address) = toLowerCase(p.address) }
firstMatch(hash) ==
  treeOf(hash)[CHOOSE i \in matchingNodes(hash) : \A j \in matchingNodes(hash) : i <= j]

\* The trace of the transaction was fetched, and the receipt is available.
examinedByFallback(hash) ==
  \E k \in 1..Len(calls) :
    calls[k].method = "getTransactionTrace" /\ calls[k].hash = hash /\ calls[k].ok
receiptAvailable(hash) ==
  /\ failures = Cardinality({ k \in 1..Len(calls) : ~calls[k].ok })
  /\ \A k \in 1..Len(calls) :
       (calls[k].method = "getTransactionReceipt" /\ calls[k].hash = hash) => calls[k].ok
fallbackCase(hash) ==
  /\ pc = "done" /\ examinedByFallback(hash) /\ receiptAvailable(hash)
  /\ (txIndex > Len(unseenTransactions)
        \/ Get(unseenTransactions[txIndex].transaction_hash) # hash
        \/ hash \in accumulated)
rowFor(hash) == allRows[CHOOSE i \in 1..Len(allRows) : allRows[i].txHash = hash]

\* C25 as stated: for a transaction the fallback examined whose receipt is
\* available, a row is accumulated exactly when the tree under the top-level
\* invocation of its kind holds a node of the queried address (ignoring case),
\* and entrypoint, caller and target address are those of the first such node
\* in pre-order.
C25_AsStated ==
  \A hash \in TxHashes :
    fallbackCase(hash) =>
      /\ hash \in accumulated <=> matchingNodes(hash) # {}
      /\ hash \in accumulated =>
           /\ rowFor(hash).entrypoint = decodeSelector(firstMatch(hash).entry_point_selector)
           /\ Some(rowFor(hash).caller) = firstMatch(hash).caller_address
           /\ rowFor(hash).to = firstMatch(hash).contract_address

\* The value of a 0x-prefixed hexadecimal amount, 0 when it is absent or is
\* not such an amount.
hexDigit ==
  [c \in {"0","1","2","3","4","5","6","7","8","9","a","b","c","d","e","f"} |->
     CASE c = "0" -> 0 [] c = "1" -> 1 [] c = "2" -> 2 [] c = "3" -> 3 [] c = "4" -> 4
       [] c = "5" -> 5 [] c = "6" -> 6 [] c = "7" -> 7 [] c = "8" -> 8 [] c = "9" -> 9
       [] c = "a" -> 10 [] c = "b" -> 11 [] c = "c" -> 12 [] c = "d" -> 13
       [] c = "e" -> 14 [] OTHER -> 15]
RECURSIVE hexValue(_)
hexValue(digits) ==
  IF digits = << >> THEN 0
  ELSE 16 * hexValue(SubSeq(digits, 1, Len(digits) - 1)) + hexDigit[digits[Len(digits)]]
amountValue(amount) ==
  IF amount = None THEN 0
  ELSE LET a == Get(amount)
       IN  IF Len(a) > 2 /\ a[1] = "0" /\ a[2] = "x"
              /\ \A i \in 3..Len(a) : a[i] \in DOMAIN hexDigit
           THEN hexValue(SubSeq(a, 3, Len(a))) ELSE 0
reverted(receipt) ==
  receipt.execution_status = Some("REVERTED") \/ receipt.revert_reason # None

\* C28: every accumulated row carries the timestamp of the block its receipt
\* names, the value of the receipt's hexadecimal fee amount (0 when absent or
\* unparsable), and status REJECTED exactly when the receipt's execution status
\* is REVERTED or it carries a revert reason, else ACCEPTED; fee 0x10,
\* SUCCEEDED give fee 16, ACCEPTED.
C28_RowFromReceipt ==
  \A i \in 1..Len(allRows) :
    LET row == allRows[i]
        receipt == Receipt(row.txHash)
    IN  /\ receipt.block_number # None =>
             row.timestamp = BlockTimestamp(Get(receipt.block_number))
        /\ row.fee = amountValue(receipt.actual_fee)
        /\ row.status = "REJECTED" <=> reverted(receipt)
        /\ row.status \in {"REJECTED", "ACCEPTED"}
        /\ (receipt.actual_fee = Some(<<"0", "x", "1", "0">>)
              /\ receipt.execution_status = Some("SUCCEEDED") /\ receipt.revert_reason = None)
             => (row.fee = 16 /\ row.status = "ACCEPTED")

\* C28's case: rows were built from a receipt with fee 0x10 and status
\* SUCCEEDED, from a reverted receipt without fee, and from a receipt with a
\* revert reason under status SUCCEEDED.
C28_Witness ==
  /\ pc = "done"
  /\ \E i, j, k \in 1..Len(allRows) :
       /\ allRows[i].fee = 16 /\ allRows[i].status = "ACCEPTED"
       /\ Receipt(allRows[j].txHash).actual_fee = None /\ allRows[j].status = "REJECTED"
       /\ Receipt(allRows[k].txHash).execution_status = Some("SUCCEEDED")
       /\ allRows[k].status = "REJECTED"

(***************************************************************************)
(* Further claims about RpcRateLimiter (specification LimiterSpec).        *)
(***************************************************************************)
unfinished == { c \in Calls : task[c] = "running" }
awaitingFinalize == { c \in Calls : task[c] = "settled" }
settledAsOperation ==
  settling # None =>
    /\ Get(settling).outcome = "value" => Get(settling).promise = "fulfilled"
    /\ Get(settling).outcome = "error" => Get(settling).promise = "rejected"

\* C26 as stated: the promise settles with the outcome of the operation, and
\* active always equals the number of started and unfinished operations.
C26_AsStated ==
  /\ settledAsOperation
  /\ active = Cardinality(unfinished)

\* C26, amended: the promise settles with the outcome of the operation and only
\* for a started operation; the slot is released exactly once, by finalize,
\* which runs after the promise has settled, so active equals the number of
\* unfinished operations plus the finished ones whose finalize has not run yet.
C26_SlotReleasedByFinalize ==
  /\ [](settledAsOperation)
  /\ [](active = Cardinality(unfinished) + Cardinality(awaitingFinalize))
  /\ [][ (settling = None /\ settling' # None) =>
           (task[Get(settling').call] = "running" /\ active' = active) ]_vars
  /\ [][ \A c \in Calls :
           (task[c] = "settled" /\ task'[c] # "settled") =>
             (task'[c] = "idle" /\ active' = active - 1 + Len(lastStarts')) ]_vars

\* C26's case: an operation failed and its promise is rejected; before
\* finalize ran another call was scheduled and queued, though a token is there
\* and fewer than maxConcurrency operations are unfinished.
C26_Witness ==
  /\ settling # None
  /\ Get(settling).outcome = "error" /\ Get(settling).promise = "rejected"
  /\ queue # << >> /\ tokens >= TokenUnit
  /\ Cardinality(unfinished) < maxConcurrency

(***************************************************************************)
(* Claims relating two runs of one query (specification RepeatSpec).       *)
(***************************************************************************)
rowSet(rows) == { rows[i] : i \in 1..Len(rows) }
secondRunReturned == pc = "done" /\ previous # None /\ failures = 0

hashesOf(rows) == { rows[i].txHash : i \in 1..Len(rows) }

\* C29: against the unchanged node with no failure, the rows returned for page
\* k and for page k + 1 of one query share no transaction hash, and every row
\* of page k has a timestamp at or above that of every row of page k + 1.
C29_PagesDoNotOverlap ==
  (secondRunReturned /\ Get(previous).page + 1 = p.page) =>
    /\ hashesOf(Get(previous).result.rows) \cap hashesOf(returned.rows) = {}
    /\ \A a \in rowSet(Get(previous).result.rows) : \A b \in rowSet(returned.rows) :
         a.timestamp >= b.timestamp

\* The scan left nothing behind: no call failed, the last event page fetched
\* carried no token,
\* the fallback's block loop ran to the end of the window within the budget,
\* and the returned slice reaches the end of the filtered set.
nothingLeft ==
  /\ pc = "done" /\ ~shortCircuited /\ noCallFailed
  /\ ~tokenLeft
  /\ ~fallbackStoppedEarly /\ ~fallbackBudgetExhausted
  /\ ~sliceEndsEarly

\* C30: hasMore is true only when something was left unscanned or unreturned:
\* when nothing was left, hasMore = false, also when the number of matching
\* rows equals page*pageSize exactly.
C30_HasMoreOnlyWhenLeft ==
  nothingLeft => returned.hasMore = Some(FALSE)

(***************************************************************************)
(* Further claims about the result of one run (specification Spec).        *)
(***************************************************************************)

\* The heights of the resolved window.
resolvedWindow == blockRangeStart..blockRangeEnd

\* The node answered a block-with-transactions fetch for height h.
blockFetched(h) ==
  \E i \in 1..Len(calls) :
    calls[i].method = "getBlockWithTxs" /\ calls[i].block = Some(h) /\ calls[i].ok

\* The node answered a trace fetch for the transaction.
traceInspected(hash) ==
  \E i \in 1..Len(calls) :
    calls[i].method = "getTransactionTrace" /\ calls[i].hash = hash /\ calls[i].ok

\* C31: a run that returns hasMore = false fetched every block of the resolved
\* window successfully and inspected the trace of every transaction of the
\* window that the event scan had not accumulated.
C31_HasMoreFalseMeansExamined ==
  (pc = "done" /\ returned.hasMore = Some(FALSE)) =>
    /\ \A h \in resolvedWindow : blockFetched(h)
    /\ \A hash \in TxHashes :
         (inWindow(hash) /\ hash \notin eventHashes) => traceInspected(hash)

\* C36: the count of matching rows never exceeds the threshold page*pageSize,
\* in either scanner, and totalEstimated of every result is that count, so
\* totalEstimated <= page*pageSize.
C36_TotalWithinThreshold ==
  /\ matchingRowCount <= limit
  /\ pc = "done" =>
       /\ returned.totalEstimated <= limit
       /\ ~shortCircuited => returned.totalEstimated = matchingRowCount

\* C36's case: a run stopped at the threshold with an event of a transaction
\* it never accumulated still in the log.
C36_Witness ==
  /\ pc = "done" /\ ~shortCircuited
  /\ returned.totalEstimated = limit /\ reachedLimit
  /\ eventHashes \ seenTx # {}

(***************************************************************************)
(* Claims about callWithLimiter (specification GateSpec).                  *)
(***************************************************************************)

\* factory() invocations: the requests sent to the node since start-up.
requestsSent == invocations
\* runTask calls: the tokens consumed since start-up.
tokensConsumed == admitted

\* C32: every request sent to the node, retries of a throttled call included,
\* is admitted by the limiter and consumes a token: at any time the requests
\* sent since start-up number at most the tokens consumed.
C32_RequestsWithinTokens ==
  requestsSent <= tokensConsumed

\* C33: under every configuration the constructor accepts, rates below one
\* request per second included, a call scheduled on an otherwise idle limiter
\* that has to wait eventually starts, timers firing and time advancing.
C33_IdleLimiterStartsCall ==
  (task[GatedCall] = "queued") ~> (task[GatedCall] = "running")

(***************************************************************************)
(* Further claims about RpcRateLimiter (specification LimiterSpec).        *)
(***************************************************************************)

\* Call a was handed to schedule before call b and still waits in the queue.
scheduledEarlier(a, b) ==
  task[a] = "queued" /\ (task[b] = "idle" \/ enqueuedBefore(a, b))

\* C34: a call never starts before the calls that were waiting when it was
\* scheduled: a step that starts a call leaves no earlier-scheduled call in
\* the queue.
C34_NoOvertaking ==
  [][\A a, b \in Calls :
       (scheduledEarlier(a, b) /\ task[b] # "running" /\ task'[b] = "running") =>
         task'[a] # "queued"]_vars

\* C35: no wake-up is lost: whenever calls wait in the queue, a refill timer
\* is pending or every slot is taken (so that a completion will process the
\* queue); a timer is pending only while calls wait, and never more than one.
C35_NoLostWakeup ==
  /\ queue # << >> => (timer # None \/ active = maxConcurrency)
  /\ timer # None => queue # << >>
  /\ pendingTimers <= 1
  /\ (timer # None) <=> (pendingTimers = 1)

\* C35's case: a timer fired with every slot taken, so the queued call is left
\* without a timer and waits for a completion.
C35_Witness ==
  /\ queue # << >> /\ timer = None /\ pendingTimers = 0
  /\ active = maxConcurrency /\ tokens >= TokenUnit

(***************************************************************************)
(* Claims about getRetryDelayMs (specification DelaySpec).                 *)
(***************************************************************************)

\* The retry-after value the server sent: the lower-case header, else the
\* capitalised one; of an array, its first element.
sentHint(error) ==
  LET header == IF ~error.object THEN None
                ELSE IF error.lowerHeader # None THEN error.lowerHeader ELSE error.upperHeader
  IN  IF header = None THEN None
      ELSE IF Get(header).kind = "array" THEN Some(Get(header).first) ELSE header

\* The hint in milliseconds, not below zero: a number of seconds, a numeric
\* text, or a date taken from the clock; None when there is no parseable hint.
hintMs(error, now) ==
  LET hint == sentHint(error)
  IN  IF hint = None THEN None
      ELSE CASE Get(hint).kind = "number" -> Some(Max(0, Get(hint).seconds * 1000))
             [] Get(hint).kind = "string" ->
                  IF Get(hint).text # << >> /\ numberTimes1000(Get(hint).text) # None
                  THEN Some(Max(0, Get(numberTimes1000(Get(hint).text))))
                  ELSE None
             [] Get(hint).kind = "date" -> Some(Max(0, Get(hint).time - now))
             [] OTHER -> None

\* min(500 * 2^(n-1), 10000)
backoffMs(n) == IF 500 * 2 ^ (n - 1) < 10000 THEN 500 * 2 ^ (n - 1) ELSE 10000

delayPlanned == retryPc = "planned"
failedError == Get(lastError)

\* C37: the delay planned after failed attempt n is the server's hint in
\* milliseconds when a parseable hint is present (not below zero, not capped),
\* and min(500 * 2^(n-1), 10000) ms otherwise; without a hint the delays do
\* not decrease with n and never exceed 10000 ms.
C37_RetryDelay ==
  delayPlanned =>
    /\ hintMs(failedError, elapsedMs) # None => delayMs = Get(hintMs(failedError, elapsedMs))
    /\ hintMs(failedError, elapsedMs) = None =>
         /\ delayMs = backoffMs(attempt)
         /\ delayMs <= 10000
         /\ \A m \in 1..attempt : getRetryDelayMs(failedError, m, elapsedMs) <= delayMs
    /\ delayMs >= 0

\* C37's cases: a hint beyond the cap is kept as it is, and a hint-less delay
\* is held at the cap.
C37_Witness ==
  /\ delayPlanned
  /\ \/ hintMs(failedError, elapsedMs) = Some(30000) /\ delayMs = 30000
     \/ hintMs(failedError, elapsedMs) = None /\ delayMs = 10000 /\ 500 * 2 ^ (attempt - 1) > 10000

(***************************************************************************)
(* Claims about findBoundaryBlock (specification BoundarySpec).            *)
(***************************************************************************)

RECURSIVE floorLog2(_)
floorLog2(n) == IF n <= 1 THEN 0 ELSE 1 + floorLog2(n \div 2)

searching == pc \in {"fromLoop", "toLoop"}
iterationEntered == searching /\ low <= high
\* The height the iteration looks up.
probed == (low + high) \div 2

\* C38: every iteration a boundary search enters has
\* 0 <= low <= mid <= high <= latestBlockNumber and leaves high - low strictly
\* smaller, so that one search makes at most floor(log2(latestBlockNumber + 1)) + 1
\* timestamp lookups and ends.
C38_SearchTerminates ==
  /\ [](iterationEntered =>
          /\ 0 <= low /\ low <= probed /\ probed <= high /\ high <= latestBlockNumber)
  /\ [](lookups <= floorLog2(latestBlockNumber + 1) + 1)
  /\ [][iterationEntered =>
          /\ lookups' = lookups + 1
          /\ searching' => high' - low' < high - low]_vars

\* C38's case: a search that took the full floor(log2(latestBlockNumber + 1)) + 1
\* lookups and returned.
C38_Witness ==
  /\ pc = "window"
  /\ lookups = floorLog2(latestBlockNumber + 1) + 1
  /\ low > high

(***************************************************************************)
(* Claims about the timestamp cache (specification RepeatSpec).            *)
(***************************************************************************)

\* Call i asks the node for the timestamp of a block height.
asksTimestamp(i) ==
  calls[i].method = "getBlockWithTxHashes" /\ calls[i].block # None

\* Call i gave the run the timestamp of height h: a timestamp lookup, the
\* latest-block lookup or a fallback block fetch that the node answered.
obtainsTimestamp(i, h) ==
  /\ calls[i].ok
  /\ IF calls[i].block # None
     THEN calls[i].block = Some(h)
            /\ calls[i].method \in {"getBlockWithTxHashes", "getBlockWithTxs"}
     ELSE calls[i].method = "getBlockWithTxHashes" /\ calls[i].hash = "latest"
            /\ h = MaxHeight

\* C39: within one run, once the timestamp of a height has been obtained (by a
\* timestamp lookup, the latest-block lookup or a fallback block fetch), the
\* node is not asked for it again and the height is served from the cache;
\* every run starts with an empty cache, a second run of the same query included.
C39_TimestampAskedOnce ==
  /\ \A j \in 1..Len(calls) :
       asksTimestamp(j) =>
         \A i \in 1..(j - 1) : ~obtainsTimestamp(i, Get(calls[j].block))
  /\ \A i \in 1..Len(calls) : \A h \in Heights :
       obtainsTimestamp(i, h) =>
         (h \in DOMAIN blockTimestampCache /\ blockTimestampCache[h] = BlockTimestamp(h))
  /\ pc = "latest" => (calls = << >> /\ DOMAIN blockTimestampCache = {})

\* C39's case: a second run asked the node for the earliest block's timestamp
\* again, and built a row from a block its fallback fetched without asking for
\* that block's timestamp.
C39_Witness ==
  /\ previous # None /\ pc = "done"
  /\ \E i \in 1..Len(calls) : asksTimestamp(i) /\ calls[i].block = Some(0) /\ calls[i].ok
  /\ \E k \in 1..Len(allRows) :
       LET h == TxBlock(allRows[k].txHash)
       IN  /\ builtByFallback(allRows[k])
           /\ h \in DOMAIN blockTimestampCache
           /\ \A i \in 1..Len(calls) : ~(asksTimestamp(i) /\ calls[i].block = Some(h))
           /\ \E i \in 1..Len(calls) : calls[i].method = "getBlockWithTxs" /\ calls[i].block = Some(h)

(***************************************************************************)
(* Claims about the fallback's block loop (specification Spec).            *)
(***************************************************************************)

\* The block-with-transactions fetches of the run, answered or not.
blockFetches == { i \in 1..Len(calls) : calls[i].method = "getBlockWithTxs" }
fetchedHeight(i) == Get(calls[i].block)
firstBlockFetch == CHOOSE i \in blockFetches : \A j \in blockFetches : i <= j

\* C40: the heights passed to the block-with-transactions fetches of one run
\* are strictly decreasing, the first is the resolved to height and none is
\* below the resolved from height.
C40_BlocksDescend ==
  /\ \A i, j \in blockFetches : i < j => fetchedHeight(i) > fetchedHeight(j)
  /\ blockFetches # {} =>
       /\ toBlock # None /\ fromBlock # None
       /\ fetchedHeight(firstBlockFetch) = Get(toBlock)
       /\ \A i \in blockFetches : fetchedHeight(i) >= Get(fromBlock)

\* C40's case: a window that ends below the latest block, walked over several
\* blocks, one of whose fetches failed.
C40_Witness ==
  /\ pc = "done"
  /\ Cardinality(blockFetches) >= 2
  /\ Get(toBlock) < latestBlockNumber
  /\ \E i \in blockFetches : ~calls[i].ok

====
